---- MODULE Spec2Model ----
(***************************************************************************)
(* hf-lms-sync: the linking engine (internal/fsutils/fsutils.go) and the   *)
(* Bubble Tea front end that drives it (internal/ui/ui.go).                *)
(*                                                                         *)
(* Directory names are sequences of one-character strings, so that         *)
(* strings.Split, strings.Contains and string concatenation are computed.  *)
(* The source cache is read by the engine; the target tree is the mutable   *)
(* state.  SpecEnv adds the user deleting directories of the cache, and     *)
(* written records the cache files an engine call writes to.                *)
(*                                                                         *)
(* Spec drives the engine's exported functions directly; SpecUI drives     *)
(* them through the key handlers and commands of the front end             *)
(* (SpecViewport: the build with the viewport).  Each engine call is one   *)
(* step.  SpecFaults and SpecFaultsUI start from runs where a root is      *)
(* missing or a directory unreadable, SpecDotFile from caches holding a    *)
(* file named like the marker.  The search mode of the front end, which    *)
(* only filters the list shown, is left out.                               *)
(***************************************************************************)
EXTENDS Integers, Sequences, FiniteSets, TLC

VARIABLES
    src,        \* source cache: directory-entry name -> entry
    tgt,        \* target tree: <<org, name>> -> directory
    orgs,       \* organization directories that exist under the target root
    last,       \* the engine call made last (harness history)
    ui,         \* the Bubble Tea model (internal/ui/ui.go, type model)
    procs,      \* commands dispatched and not yet handled, oldest first
    dispatched, \* number of commands dispatched so far
    build,      \* which internal/ui/ui.go is built: "list" or "viewport"
    env,        \* what the run is given: whether the two roots exist, the
                \* directories of the target root that cannot be read, --verbose
    written     \* the files of the source cache whose contents were overwritten

vars == <<src, tgt, orgs, last, ui, procs, dispatched, build, env, written>>

(***************************************************************************)
(* Strings                                                                 *)
(***************************************************************************)

\* The bytes used in directory names, in ascending byte order.
Alphabet == <<"-", "a", "b", "d", "e", "l", "m", "o", "s", "x", "y">>

Ord(c) == CHOOSE i \in 1..Len(Alphabet) : Alphabet[i] = c

\* Go's < on strings: bytewise lexicographic.
RECURSIVE StrLess(_, _)
StrLess(s, t) ==
    IF t = <<>> THEN FALSE
    ELSE IF s = <<>> THEN TRUE
    ELSE IF Head(s) = Head(t) THEN StrLess(Tail(s), Tail(t))
    ELSE Ord(Head(s)) < Ord(Head(t))

Sep == <<"-", "-">>

\* strings.Contains(s, "--")
Contains(s) == \E i \in 1..(Len(s) - 1) : s[i] = "-" /\ s[i + 1] = "-"

\* strings.Split(s, "--"): cuts at the leftmost, non-overlapping separators.
RECURSIVE SplitFrom(_, _)
SplitFrom(s, cur) ==
    IF s = <<>> THEN <<cur>>
    ELSE IF Len(s) >= 2 /\ s[1] = "-" /\ s[2] = "-"
         THEN <<cur>> \o SplitFrom(SubSeq(s, 3, Len(s)), <<>>)
         ELSE SplitFrom(Tail(s), Append(cur, Head(s)))

Split(s) == SplitFrom(s, <<>>)

ModelsPrefix == <<"m", "o", "d", "e", "l", "s", "-", "-">>

metadataFile == ".hf-lms-sync"
snapshotsDir == "snapshots"

(***************************************************************************)
(* The source cache                                                        *)
(*   <hfCache>/<entry>/snapshots/<snapshot>/<file>                         *)
(* A file of a snapshot is a regular file ("file"), a symbolic link into   *)
(* the blob store that resolves ("link") or one that does not              *)
(* ("dangling").                                                           *)
(***************************************************************************)

File(n, k) == [name |-> n, kind |-> k]
Snap(n, d, fs) == [name |-> n, isDir |-> d, files |-> fs]
Entry(d, h, ss) == [isDir |-> d, hasSnap |-> h, snaps |-> ss]

\* A path below the source root: the entry, then the components below it.
SrcPath(e, sub) == [entry |-> e, sub |-> sub]

\* os.Stat of a source path: "dir", "file", "notexist" (ENOENT) or
\* "notdir" (ENOTDIR: a component of the path is a regular file).
SrcStat(s, p) ==
    IF p.entry \notin DOMAIN s THEN "notexist"
    ELSE LET e == s[p.entry] IN
         IF p.sub = <<>> THEN (IF e.isDir THEN "dir" ELSE "file")
         ELSE IF ~e.isDir THEN "notdir"
         ELSE IF p.sub[1] # snapshotsDir \/ ~e.hasSnap THEN "notexist"
         ELSE IF Len(p.sub) = 1 THEN "dir"
         ELSE LET hit == {i \in 1..Len(e.snaps) : e.snaps[i].name = p.sub[2]} IN
              IF hit = {} THEN "notexist"
              ELSE LET sn == e.snaps[CHOOSE i \in hit : TRUE] IN
                   IF Len(p.sub) = 2 THEN (IF sn.isDir THEN "dir" ELSE "file")
                   ELSE IF ~sn.isDir THEN "notdir"
                   ELSE "notexist"

\* ioutil.ReadDir of <entry>/snapshots (sorted by name, as the entry keeps them).
ReadSnapshots(s, p) ==
    IF Len(p.sub) = 1 /\ SrcStat(s, p) = "dir" THEN s[p.entry].snaps ELSE <<>>

\* A fully resolved path of the source cache: a regular file of a snapshot
\* ("snap") or a blob ("blob"); "none" is the target of nothing.
Real(e, w, sn, f) == [entry |-> e, where |-> w, snap |-> sn, file |-> f]
NoPath == Real(<<>>, "none", "", "")

\* Whether a resolved path names an existing regular (non-symlink) file.
RealExists(s, r) ==
    /\ r.where \in {"snap", "blob"}
    /\ r.entry \in DOMAIN s
    /\ s[r.entry].isDir /\ s[r.entry].hasSnap
    /\ \E i \in 1..Len(s[r.entry].snaps) :
          LET sn == s[r.entry].snaps[i] IN
          /\ sn.isDir
          /\ \E j \in 1..Len(sn.files) :
                /\ sn.files[j].name = r.file
                /\ IF r.where = "snap"
                   THEN sn.name = r.snap /\ sn.files[j].kind = "file"
                   ELSE sn.files[j].kind = "link"

\* Mutant of EvalSymlinks: the path is returned as given, links unresolved.
EvalSymlinksUnresolved(e, sn, f) ==
    IF f.kind \in {"file", "link"}
    THEN [ok |-> TRUE, path |-> Real(e, "snap", sn, f.name)]
    ELSE [ok |-> FALSE, path |-> NoPath]

\* filepath.EvalSymlinks of <entry>/snapshots/<snapshot>/<file>.
EvalSymlinks(e, sn, f) ==
    CASE f.kind = "file" -> [ok |-> TRUE, path |-> Real(e, "snap", sn, f.name)]
      [] f.kind = "link" -> [ok |-> TRUE, path |-> Real(e, "blob", "", f.name)]
      [] OTHER -> [ok |-> FALSE, path |-> NoPath]

(***************************************************************************)
(* The target tree                                                         *)
(*   <targetDir>/<org>/<name>/{<file> -> real path, .hf-lms-sync}          *)
(***************************************************************************)

TFile(n, k, to) == [name |-> n, kind |-> k, to |-> to]
TDir(x, m, fs, l) ==
    [exists |-> x, marker |-> m, files |-> fs, locked |-> l, noread |-> FALSE]
\* The directory without read permission: it can be searched, not listed.
NoRead(d) == [d EXCEPT !.noread = TRUE]
Absent == TDir(FALSE, FALSE, {}, FALSE)

TPath(o, n) == <<o, n>>

\* The directory at a target path (absent when nothing was ever put there).
DirAt(t, p) == IF p \in DOMAIN t THEN t[p] ELSE Absent

\* os.Stat(filepath.Join(targetPath, metadataFile)) succeeds.
HasMarker(t, p) == DirAt(t, p).exists /\ DirAt(t, p).marker

\* os.RemoveAll(targetPath): a directory without write permission keeps its
\* entries, one without read permission cannot be listed, and the call fails;
\* otherwise the directory is gone.
RemoveAllFails(t, p) ==
    LET d == DirAt(t, p) IN d.exists /\ (d.locked \/ d.noread) /\ (d.marker \/ d.files # {})

\* Mutant of RemoveAll: the organization directory is removed with all its
\* children.
RemoveAllParent(t, p) ==
    IF RemoveAllFails(t, p) \/ p \notin DOMAIN t THEN t
    ELSE [q \in DOMAIN t |-> IF q[1] = p[1] THEN Absent ELSE t[q]]

RemoveAll(t, p) ==
    IF RemoveAllFails(t, p) \/ p \notin DOMAIN t THEN t
    ELSE [t EXCEPT ![p] = Absent]

(***************************************************************************)
(* ModelInfo and the engine                                                *)
(***************************************************************************)

ModelInfo(cdn, org, name, sp, tp, linked, stale, reason) ==
    [CacheDirName |-> cdn, OrganizationName |-> org, ModelName |-> name,
     SourcePath |-> sp, TargetPath |-> tp,
     IsLinked |-> linked, IsStale |-> stale, StaleReason |-> reason]

\* os.Readlink fails only on an entry that is no symbolic link.
ReadlinkFails(f) == f.kind # "symlink"

\* Mutant of verifySymlinks: the error of ReadDir is not looked at.
verifySymlinksUnread(t, p) ==
    /\ DirAt(t, p).exists
    /\ \A f \in DirAt(t, p).files : f.kind = "symlink" => ~ReadlinkFails(f)

\* verifySymlinks: ReadDir succeeds on an existing directory, then every
\* symlink entry is passed to os.Readlink.
verifySymlinks(t, p) ==
    /\ DirAt(t, p).exists
    /\ ~DirAt(t, p).noread
    /\ \A f \in DirAt(t, p).files : f.kind = "symlink" => ~ReadlinkFails(f)

\* The entries of every snapshot directory in listing order; an entry of
\* snapshots/ that is no directory is skipped (snapDir.IsDir()).
RECURSIVE SnapFiles(_)
SnapFiles(snaps) ==
    IF snaps = <<>> THEN <<>>
    ELSE LET sn == Head(snaps) IN
         (IF sn.isDir
          THEN [j \in 1..Len(sn.files) |-> [snap |-> sn.name, file |-> sn.files[j]]]
          ELSE <<>>) \o SnapFiles(Tail(snaps))

\* os.Symlink(realSource, dst) fails when dst already exists (EEXIST).
SymlinkFails(files, name) == \E g \in files : g.name = name

\* The loop of LinkModel over the snapshot files: resolve, then symlink; the
\* first failure returns, leaving the links made so far.
RECURSIVE linkFiles(_, _, _)
linkFiles(e, todo, files) ==
    IF todo = <<>> THEN [files |-> files, err |-> "nil"]
    ELSE LET it == Head(todo)
             rs == EvalSymlinks(e, it.snap, it.file)
         IN  IF ~rs.ok THEN [files |-> files, err |-> "SymlinkResolutionFailed"]
             ELSE IF SymlinkFails(files, it.file.name)
                  THEN [files |-> files, err |-> "SymlinkCreationFailed"]
                  ELSE linkFiles(e, Tail(todo),
                                 files \cup {TFile(it.file.name, "symlink", rs.path)})

\* What an engine call leaves and returns; written holds the files of the
\* source cache it wrote to.
Result(t, o, err) == [tgt |-> t, orgs |-> o, err |-> err, written |-> {}]

\* ioutil.WriteFile(<target>/.hf-lms-sync, ...) opens the path with
\* O_WRONLY|O_CREATE|O_TRUNC: when the loop has put a link of that name into
\* the directory, the file of the cache it points to is truncated and written.
WriteFileThrough(files) == {f.to : f \in {g \in files : g.name = metadataFile}}

\* Whether os.Stat of the marker path succeeds on the directory LinkModel
\* leaves: the marker was written, or a link of that name was created.
MarkerAfter(r) == r.err = "nil" \/ WriteFileThrough(r.files) # {}

\* Mutant of LinkModel: the snapshots directory is not checked, a missing one
\* is read as empty.
LinkModelNoSnapshotsCheck(m, s, t, o) ==
    LET sp == m.SourcePath
        snapshotsPath == SrcPath(sp.entry, Append(sp.sub, snapshotsDir))
        tp == m.TargetPath
    IN  IF SrcStat(s, sp) # "dir" THEN Result(t, o, "SourceMissing")
        ELSE IF DirAt(t, tp).exists /\ RemoveAllFails(t, tp)
             THEN Result(t, o, "CleanupFailed")
        ELSE LET r == linkFiles(sp.entry, SnapFiles(ReadSnapshots(s, snapshotsPath)), {})
             IN  [Result([t EXCEPT ![tp] = TDir(TRUE, MarkerAfter(r), r.files, FALSE)],
                         o \cup {tp[1]}, r.err)
                     EXCEPT !.written = IF r.err = "nil" THEN WriteFileThrough(r.files)
                                        ELSE {}]

\* Mutant of LinkModel: the target directory is removed before the source is
\* looked at.
LinkModelCleanupFirst(m, s, t, o) ==
    LET sp == m.SourcePath
        snapshotsPath == SrcPath(sp.entry, Append(sp.sub, snapshotsDir))
        tp == m.TargetPath
    IN  IF DirAt(t, tp).exists /\ RemoveAllFails(t, tp)
        THEN Result(t, o, "CleanupFailed")
        ELSE IF SrcStat(s, sp) # "dir" THEN Result(RemoveAll(t, tp), o, "SourceMissing")
        ELSE IF SrcStat(s, snapshotsPath) # "dir"
             THEN Result(RemoveAll(t, tp), o, "SnapshotsMissing")
        ELSE LET r == linkFiles(sp.entry, SnapFiles(ReadSnapshots(s, snapshotsPath)), {})
             IN  [Result([t EXCEPT ![tp] = TDir(TRUE, MarkerAfter(r), r.files, FALSE)],
                         o \cup {tp[1]}, r.err)
                     EXCEPT !.written = IF r.err = "nil" THEN WriteFileThrough(r.files)
                                        ELSE {}]

\* Mutant of LinkModel: an existing target directory is kept and linked into.
LinkModelNoCleanup(m, s, t, o) ==
    LET sp == m.SourcePath
        snapshotsPath == SrcPath(sp.entry, Append(sp.sub, snapshotsDir))
        tp == m.TargetPath
    IN  IF SrcStat(s, sp) # "dir" THEN Result(t, o, "SourceMissing")
        ELSE IF SrcStat(s, snapshotsPath) # "dir" THEN Result(t, o, "SnapshotsMissing")
        ELSE LET r == linkFiles(sp.entry, SnapFiles(ReadSnapshots(s, snapshotsPath)),
                                DirAt(t, tp).files)
             IN  [Result([t EXCEPT ![tp] = TDir(TRUE, MarkerAfter(r), r.files, FALSE)],
                         o \cup {tp[1]}, r.err)
                     EXCEPT !.written = IF r.err = "nil" THEN WriteFileThrough(r.files)
                                        ELSE {}]

\* LinkModel(m): the source checks, the removal of an existing target
\* directory, MkdirAll, the symlink loop, and the marker written last.
LinkModel(m, s, t, o) ==
    LET sp == m.SourcePath
        snapshotsPath == SrcPath(sp.entry, Append(sp.sub, snapshotsDir))
        tp == m.TargetPath
    IN  IF SrcStat(s, sp) # "dir" THEN Result(t, o, "SourceMissing")
        ELSE IF SrcStat(s, snapshotsPath) # "dir" THEN Result(t, o, "SnapshotsMissing")
        ELSE IF DirAt(t, tp).exists /\ RemoveAllFails(t, tp)
             THEN Result(t, o, "CleanupFailed")
        ELSE LET r == linkFiles(sp.entry, SnapFiles(ReadSnapshots(s, snapshotsPath)), {})
             IN  [Result([t EXCEPT ![tp] = TDir(TRUE, MarkerAfter(r), r.files, FALSE)],
                         o \cup {tp[1]}, r.err)
                     EXCEPT !.written = IF r.err = "nil" THEN WriteFileThrough(r.files)
                                        ELSE {}]

\* Mutant of UnlinkModel: only the marker file is removed.
UnlinkModelMarkerOnly(m, s, t, o) ==
    LET tp == m.TargetPath IN
    IF HasMarker(t, tp)
    THEN Result([t EXCEPT ![tp] = [@ EXCEPT !.marker = FALSE]], o, "nil")
    ELSE Result(t, o, "nil")

\* Mutant of UnlinkModel: a directory without the marker is an error.
UnlinkModelStrict(m, s, t, o) ==
    LET tp == m.TargetPath IN
    IF HasMarker(t, tp)
    THEN IF RemoveAllFails(t, tp) THEN Result(t, o, "RemoveFailed")
         ELSE Result(RemoveAll(t, tp), o, "nil")
    ELSE Result(t, o, "NotLinked")

\* Mutant of UnlinkModel: the marker is not looked for.
UnlinkModelAlways(m, s, t, o) ==
    LET tp == m.TargetPath IN
    IF RemoveAllFails(t, tp) THEN Result(t, o, "RemoveFailed")
    ELSE Result(RemoveAll(t, tp), o, "nil")

\* UnlinkModel(m): removes the target directory only when it holds the marker.
UnlinkModel(m, s, t, o) ==
    LET tp == m.TargetPath IN
    IF HasMarker(t, tp)
    THEN IF RemoveAllFails(t, tp) THEN Result(t, o, "RemoveFailed")
         ELSE Result(RemoveAll(t, tp), o, "nil")
    ELSE Result(t, o, "nil")

\* ioutil.ReadDir: names in ascending order.
RECURSIVE SortNames(_)
SortNames(S) ==
    IF S = {} THEN <<>>
    ELSE LET m == CHOOSE x \in S : \A y \in S \ {x} : StrLess(x, y)
         IN  <<m>> \o SortNames(S \ {m})

\* Mutant of loadEntry: only names of three segments are taken.
loadEntryThreeSegments(s, t, n) ==
    IF ~s[n].isDir \/ ~Contains(n) THEN <<>>
    ELSE LET parts == Split(n) IN
         IF Len(parts) # 3 THEN <<>>
         ELSE LET organization == parts[Len(parts) - 1]
                  modelName == parts[Len(parts)]
                  targetPath == TPath(organization, modelName)
                  isLinked == IF HasMarker(t, targetPath)
                              THEN verifySymlinks(t, targetPath) ELSE FALSE
              IN  <<ModelInfo(n, organization, modelName, SrcPath(n, <<>>),
                              targetPath, isLinked, FALSE, "")>>

\* Mutant of loadEntry: organization and name are the first two segments.
loadEntryFirstTwo(s, t, n) ==
    IF ~s[n].isDir \/ ~Contains(n) THEN <<>>
    ELSE LET parts == Split(n) IN
         IF Len(parts) < 3 THEN <<>>
         ELSE LET organization == parts[1]
                  modelName == parts[2]
                  targetPath == TPath(organization, modelName)
                  isLinked == IF HasMarker(t, targetPath)
                              THEN verifySymlinks(t, targetPath) ELSE FALSE
              IN  <<ModelInfo(n, organization, modelName, SrcPath(n, <<>>),
                              targetPath, isLinked, FALSE, "")>>

\* The body of LoadModels' loop for one entry of the source root.
loadEntry(s, t, n) ==
    IF ~s[n].isDir \/ ~Contains(n) THEN <<>>
    ELSE LET parts == Split(n) IN
         IF Len(parts) < 2 THEN <<>>
         ELSE LET organization == parts[Len(parts) - 1]
                  modelName == parts[Len(parts)]
                  targetPath == TPath(organization, modelName)
                  isLinked == IF HasMarker(t, targetPath)
                              THEN verifySymlinks(t, targetPath) ELSE FALSE
              IN  <<ModelInfo(n, organization, modelName, SrcPath(n, <<>>),
                              targetPath, isLinked, FALSE, "")>>

RECURSIVE loadFrom(_, _, _)
loadFrom(s, t, names) ==
    IF names = <<>> THEN <<>>
    ELSE loadEntry(s, t, Head(names)) \o loadFrom(s, t, Tail(names))

\* LoadModels(targetDir), both roots existing.
LoadModels(s, t) == loadFrom(s, t, SortNames(DOMAIN s))

\* filepath.WalkDir visits the directories in lexical order: by organization,
\* then by name.
PathLess(p, q) == StrLess(p[1], q[1]) \/ (p[1] = q[1] /\ StrLess(p[2], q[2]))

RECURSIVE SortPaths(_)
SortPaths(S) ==
    IF S = {} THEN <<>>
    ELSE LET m == CHOOSE x \in S : \A y \in S \ {x} : PathLess(x, y)
         IN  <<m>> \o SortPaths(S \ {m})

\* Mutant of staleEntry: the metadata file is not looked for.
staleEntryAnyDir(s, t, path) ==
    LET organization == path[1]
        modelName == path[2]
        cacheDirName == ModelsPrefix \o organization \o Sep \o modelName
        sourcePath == SrcPath(cacheDirName, <<snapshotsDir>>)
    IN  IF SrcStat(s, sourcePath) = "notexist"
        THEN <<ModelInfo(cacheDirName, organization, modelName, sourcePath,
                         path, TRUE, TRUE, "Source directory not found")>>
        ELSE <<>>

\* Mutant of staleEntry: the record carries the IsLinked the target would get
\* from verifySymlinks and no reason.
staleEntryUnflagged(s, t, path) ==
    IF ~HasMarker(t, path) THEN <<>>
    ELSE LET organization == path[1]
             modelName == path[2]
             cacheDirName == ModelsPrefix \o organization \o Sep \o modelName
             sourcePath == SrcPath(cacheDirName, <<snapshotsDir>>)
         IN  IF SrcStat(s, sourcePath) = "notexist"
             THEN <<ModelInfo(cacheDirName, organization, modelName, sourcePath,
                              path, FALSE, TRUE, "")>>
             ELSE <<>>

\* The walk function of FindStaleLinks on one directory.
staleEntry(s, t, path) ==
    IF ~HasMarker(t, path) THEN <<>>
    ELSE LET organization == path[1]
             modelName == path[2]
             cacheDirName == ModelsPrefix \o organization \o Sep \o modelName
             sourcePath == SrcPath(cacheDirName, <<snapshotsDir>>)
         IN  IF SrcStat(s, sourcePath) = "notexist"
             THEN <<ModelInfo(cacheDirName, organization, modelName, sourcePath,
                              path, TRUE, TRUE, "Source directory not found")>>
             ELSE <<>>

RECURSIVE staleFrom(_, _, _)
staleFrom(s, t, paths) ==
    IF paths = <<>> THEN <<>>
    ELSE staleEntry(s, t, Head(paths)) \o staleFrom(s, t, Tail(paths))

\* FindStaleLinks(targetDir), the walk meeting no error.
FindStaleLinks(s, t) ==
    staleFrom(s, t, SortPaths({p \in DOMAIN t : t[p].exists}))

\* An environment variable: unset, or set to a value that may be empty.
Unset == [set |-> FALSE, value |-> ""]
SetTo(v) == [set |-> TRUE, value |-> v]

\* os.Getenv: the value, or "" when the variable is unset.
Getenv(v) == IF v.set THEN v.value ELSE ""

\* os.UserHomeDir: the home directory, or an error when it is not defined.
HomeIs(d) == [ok |-> TRUE, dir |-> d]
NoHome == [ok |-> FALSE, dir |-> ""]

\* filepath.Join of a base directory and path components.
Join(base, comps) == <<base>> \o comps

\* Mutant of resolveRoot: XDG_CACHE_HOME is honoured on every OS but Windows.
resolveRootXdgOnDarwin(e, app) ==
    CASE e.GOOS = "windows" ->
            IF Getenv(e.LOCALAPPDATA) # ""
            THEN [path |-> Join(Getenv(e.LOCALAPPDATA), app), err |-> "nil"]
            ELSE IF ~e.home.ok THEN [path |-> <<>>, err |-> "HomeDirectoryUnavailable"]
            ELSE [path |-> Join(e.home.dir, <<"AppData", "Local">> \o app), err |-> "nil"]
      [] OTHER ->
            IF Getenv(e.XDG_CACHE_HOME) # ""
            THEN [path |-> Join(Getenv(e.XDG_CACHE_HOME), app), err |-> "nil"]
            ELSE IF ~e.home.ok THEN [path |-> <<>>, err |-> "HomeDirectoryUnavailable"]
            ELSE [path |-> Join(e.home.dir, <<".cache">> \o app), err |-> "nil"]

\* Mutant of resolveRoot: the home directory is asked for first.
resolveRootHomeFirst(e, app) ==
    IF ~e.home.ok THEN [path |-> <<>>, err |-> "HomeDirectoryUnavailable"]
    ELSE CASE e.GOOS = "windows" ->
                 IF Getenv(e.LOCALAPPDATA) # ""
                 THEN [path |-> Join(Getenv(e.LOCALAPPDATA), app), err |-> "nil"]
                 ELSE [path |-> Join(e.home.dir, <<"AppData", "Local">> \o app), err |-> "nil"]
           [] e.GOOS = "darwin" ->
                 [path |-> Join(e.home.dir, <<".cache">> \o app), err |-> "nil"]
           [] OTHER ->
                 IF Getenv(e.XDG_CACHE_HOME) # ""
                 THEN [path |-> Join(Getenv(e.XDG_CACHE_HOME), app), err |-> "nil"]
                 ELSE [path |-> Join(e.home.dir, <<".cache">> \o app), err |-> "nil"]

\* The switch on runtime.GOOS shared by the two resolvers, app being the
\* components below the cache directory.
resolveRoot(e, app) ==
    CASE e.GOOS = "windows" ->
            IF Getenv(e.LOCALAPPDATA) # ""
            THEN [path |-> Join(Getenv(e.LOCALAPPDATA), app), err |-> "nil"]
            ELSE IF ~e.home.ok THEN [path |-> <<>>, err |-> "HomeDirectoryUnavailable"]
            ELSE [path |-> Join(e.home.dir, <<"AppData", "Local">> \o app), err |-> "nil"]
      [] e.GOOS = "darwin" ->
            IF ~e.home.ok THEN [path |-> <<>>, err |-> "HomeDirectoryUnavailable"]
            ELSE [path |-> Join(e.home.dir, <<".cache">> \o app), err |-> "nil"]
      [] OTHER ->
            IF Getenv(e.XDG_CACHE_HOME) # ""
            THEN [path |-> Join(Getenv(e.XDG_CACHE_HOME), app), err |-> "nil"]
            ELSE IF ~e.home.ok THEN [path |-> <<>>, err |-> "HomeDirectoryUnavailable"]
            ELSE [path |-> Join(e.home.dir, <<".cache">> \o app), err |-> "nil"]

\* GetHfCacheDir()
GetHfCacheDir(e) == resolveRoot(e, <<"huggingface", "hub">>)

\* GetLmStudioModelsDir()
GetLmStudioModelsDir(e) == resolveRoot(e, <<"lm-studio", "models">>)

\* A run on Linux with both roots in place, every directory readable, and
\* --verbose.
EnvOk ==
    [hfCache |-> TRUE, targetDir |-> TRUE, unreadable |-> {}, Verbose |-> TRUE,
     GOOS |-> "linux", XDG_CACHE_HOME |-> Unset, LOCALAPPDATA |-> Unset,
     home |-> HomeIs("/home/u")]

\* Mutant of LoadModelsResult: the target root is not checked.
LoadModelsResultCacheOnly(e, s, t) ==
    IF ~e.hfCache
    THEN [models |-> <<>>, err |-> "DirectoryNotFound"]
    ELSE [models |-> LoadModels(s, t), err |-> "nil"]

\* LoadModels(targetDir) with its checks of the two roots: an error and no
\* records when either is no existing directory.
LoadModelsResult(e, s, t) ==
    IF ~e.hfCache \/ ~e.targetDir
    THEN [models |-> <<>>, err |-> "DirectoryNotFound"]
    ELSE [models |-> LoadModels(s, t), err |-> "nil"]

\* The first directory of the target root, in the order of the walk, whose
\* entries cannot be read.
FirstUnreadable(e) ==
    CHOOSE u \in e.unreadable : \A v \in e.unreadable \ {u} : StrLess(u, v)

\* FindStaleLinks(targetDir) with the errors of the walk: WalkDir passes the
\* error of the root, or of the first directory it cannot read, to the walk
\* function, which returns it; the function returns what it has appended so
\* far together with that error.  A model directory that cannot be read has
\* been passed to the walk function once, without error, before.
FindStaleLinksResult(e, s, t) ==
    LET walked == {p \in DOMAIN t :
                     /\ t[p].exists
                     /\ e.unreadable # {} => StrLess(p[1], FirstUnreadable(e))}
        noread == {p \in walked : t[p].noread}
        first == CHOOSE p \in noread : \A q \in noread \ {p} : PathLess(p, q)
    IN  IF ~e.targetDir THEN [stale |-> <<>>, err |-> "WalkFailed"]
        ELSE IF noread # {}
             THEN [stale |-> staleFrom(s, t, SortPaths({p \in walked :
                                 p = first \/ PathLess(p, first)})),
                   err |-> "WalkFailed"]
        ELSE IF e.unreadable = {} THEN [stale |-> FindStaleLinks(s, t), err |-> "nil"]
        ELSE [stale |-> staleFrom(s, t, SortPaths(walked)), err |-> "WalkFailed"]

\* os.MkdirAll(m.TargetPath) creates the target root when it is missing.
AfterMkdirAll(e, t, p) == [e EXCEPT !.targetDir = @ \/ DirAt(t, p).exists]

(***************************************************************************)
(* The file systems a run may start from                                   *)
(***************************************************************************)

orgA == <<"a">>
orgB == <<"b">>
nameX == <<"x">>
nameY == <<"y">>

\* models--a--x, models--b--y, and d--a--x: another provider's directory
\* with the organization and name of the first.
dirAX == ModelsPrefix \o orgA \o Sep \o nameX
dirBY == ModelsPrefix \o orgB \o Sep \o nameY
dirDAX == <<"d">> \o Sep \o orgA \o Sep \o nameX
\* a directory of the cache root that is no model (no separator in its name)
dirPlain == <<"b", "l", "o", "b", "s">>

\* One snapshot: a regular file and a link into the blob store.
ShOne == Entry(TRUE, TRUE, <<Snap("v1", TRUE, <<File("f1", "file"), File("f2", "link")>>)>>)
\* One snapshot, its second link broken.
ShDangling == Entry(TRUE, TRUE, <<Snap("v1", TRUE, <<File("f1", "link"), File("f2", "dangling")>>)>>)
\* Two revisions holding a file of the same name.
ShDup == Entry(TRUE, TRUE, <<Snap("v1", TRUE, <<File("f1", "link")>>),
                             Snap("v2", TRUE, <<File("f1", "link"), File("f3", "link")>>)>>)
\* A stray file beside two revisions with different files.
ShTwo == Entry(TRUE, TRUE, <<Snap("r", FALSE, <<>>),
                             Snap("v1", TRUE, <<File("f1", "link")>>),
                             Snap("v2", TRUE, <<File("f2", "file")>>)>>)
\* One snapshot holding a file named like the marker.
ShDotFile == Entry(TRUE, TRUE, <<Snap("v1", TRUE, <<File(metadataFile, "file"),
                                                    File("f1", "link")>>)>>)
\* The same, followed by a link that does not resolve.
ShDotDangling == Entry(TRUE, TRUE, <<Snap("v1", TRUE, <<File(metadataFile, "file"),
                                                        File("f1", "dangling")>>)>>)
ShEmpty == Entry(TRUE, TRUE, <<>>)
ShNoSnap == Entry(TRUE, FALSE, <<>>)
ShFile == Entry(FALSE, FALSE, <<>>)

\* What each candidate directory of the cache root may look like.
Shapes(n) ==
    CASE n = dirAX -> {ShOne, ShDangling, ShDup, ShTwo, ShEmpty, ShNoSnap, ShFile}
      [] n = dirBY -> {ShOne, ShDangling}
      [] n = dirDAX -> {ShOne, ShNoSnap}
      [] OTHER -> {ShNoSnap}

SrcNames == {dirAX, dirBY, dirDAX, dirPlain}

\* At most this many entries in the cache root.
MaxEntries == 2

SrcConfigs ==
    UNION {{f \in [D -> UNION {Shapes(n) : n \in D}] : \A n \in D : f[n] \in Shapes(n)} :
           D \in {D \in SUBSET SrcNames : Cardinality(D) <= MaxEntries}}

TPaths == {TPath(orgA, nameX), TPath(orgB, nameY)}

\* A directory of the target tree before the run: absent, somebody else's
\* (a regular file, no marker), or left by an earlier link of models--<o>--<n>
\* (marker and one link to a blob), writable or not.
UserDir == TDir(TRUE, FALSE, {TFile("user", "file", NoPath)}, FALSE)
OldLink(p, l) ==
    TDir(TRUE, TRUE,
         {TFile("f1", "symlink", Real(ModelsPrefix \o p[1] \o Sep \o p[2], "blob", "", "f1"))}, l)

TgtConfigs ==
    {t \in [TPaths -> {Absent, UserDir} \cup {OldLink(p, l) : p \in TPaths, l \in BOOLEAN}] :
        \A p \in TPaths : t[p].marker => t[p] \in {OldLink(p, TRUE), OldLink(p, FALSE)}}

NoCall == [op |-> "none", rec |-> <<>>, err |-> "nil", before |-> <<>>,
           orgsBefore |-> {}, out |-> <<>>, chain |-> "no", again |-> "no"]

InitDisk ==
    /\ written = {}
    /\ src \in SrcConfigs
    /\ tgt \in TgtConfigs
    /\ orgs = {p[1] : p \in {q \in TPaths : tgt[q].exists}}

(***************************************************************************)
(* The engine called directly, as the package's tests call it              *)
(***************************************************************************)

\* The records a caller may hold: those a discovery pass returns for this
\* source cache and this target tree, now or after other calls.
loadRecords(s) ==
    UNION {{ModelInfo(n, Split(n)[Len(Split(n)) - 1], Split(n)[Len(Split(n))],
                      SrcPath(n, <<>>),
                      TPath(Split(n)[Len(Split(n)) - 1], Split(n)[Len(Split(n))]),
                      FALSE, FALSE, "")} : n \in {m \in DOMAIN s : Contains(m)}}

staleRecords ==
    {ModelInfo(ModelsPrefix \o p[1] \o Sep \o p[2], p[1], p[2],
               SrcPath(ModelsPrefix \o p[1] \o Sep \o p[2], <<snapshotsDir>>),
               p, TRUE, TRUE, "Source directory not found") : p \in TPaths}

Records(s) == loadRecords(s) \cup staleRecords

\* Whether this call is an Unlink right after a Link of the same record that
\* found the snapshots directory present and the target path free.
Chain(op, r) ==
    IF op = "unlink" /\ last.op = "link" /\ last.rec = r
       /\ SrcStat(src, SrcPath(r.SourcePath.entry, Append(r.SourcePath.sub, snapshotsDir))) = "dir"
       /\ ~DirAt(last.before, r.TargetPath).exists
    THEN (IF last.err = "nil" THEN "linked" ELSE "linkFailed")
    ELSE "no"

\* Whether this Unlink comes right after an Unlink of the same record, and
\* whether that one removed a directory holding the marker.
Again(r) ==
    IF last.op = "unlink" /\ last.rec = r
    THEN (IF HasMarker(last.before, r.TargetPath) /\ last.err = "nil"
          THEN "removed" ELSE "unlinked")
    ELSE "no"

\* Whether this Link comes right after a successful Link of the same record.
AgainLink(r) ==
    IF last.op = "link" /\ last.rec = r /\ last.err = "nil" THEN "relinked" ELSE "no"

CallLinkModel(r) ==
    LET res == LinkModel(r, src, tgt, orgs) IN
    /\ tgt' = res.tgt
    /\ orgs' = res.orgs
    /\ env' = AfterMkdirAll(env, res.tgt, r.TargetPath)
    /\ written' = written \cup res.written
    /\ last' = [op |-> "link", rec |-> r, err |-> res.err, before |-> tgt,
                orgsBefore |-> orgs, out |-> <<>>, chain |-> "no",
                again |-> AgainLink(r)]
    /\ UNCHANGED <<build, src, ui, procs, dispatched>>

CallUnlinkModel(r) ==
    LET res == UnlinkModel(r, src, tgt, orgs) IN
    /\ tgt' = res.tgt
    /\ orgs' = res.orgs
    /\ last' = [op |-> "unlink", rec |-> r, err |-> res.err, before |-> tgt,
                orgsBefore |-> orgs, out |-> <<>>, chain |-> Chain("unlink", r), again |-> Again(r)]
    /\ UNCHANGED <<written, env, build, src, ui, procs, dispatched>>

CallLoadModels ==
    /\ last' = [op |-> "load", rec |-> <<>>,
                err |-> LoadModelsResult(env, src, tgt).err, before |-> tgt,
                orgsBefore |-> orgs, out |-> LoadModelsResult(env, src, tgt).models,
                chain |-> "no", again |-> "no"]
    /\ UNCHANGED <<written, env, build, src, tgt, orgs, ui, procs, dispatched>>

CallFindStaleLinks ==
    /\ last' = [op |-> "stale", rec |-> <<>>,
                err |-> FindStaleLinksResult(env, src, tgt).err, before |-> tgt,
                orgsBefore |-> orgs, out |-> FindStaleLinksResult(env, src, tgt).stale,
                chain |-> "no", again |-> "no"]
    /\ UNCHANGED <<written, env, build, src, tgt, orgs, ui, procs, dispatched>>

\* The user deletes an artifact directory from the cache, outside the program.
DeleteSource(n) ==
    /\ src' = [m \in DOMAIN src \ {n} |-> src[m]]
    /\ last' = [op |-> "delete", rec |-> <<>>, err |-> "nil", before |-> tgt,
                orgsBefore |-> orgs, out |-> <<>>, chain |-> "no", again |-> "no"]
    /\ UNCHANGED <<written, env, build, tgt, orgs, ui, procs, dispatched>>

(***************************************************************************)
(* The front end: type model, New and Update of internal/ui/ui.go, and the *)
(* Bubble Tea runtime, which runs every command returned by Update in a    *)
(* goroutine of its own and hands the message it returns back to Update.   *)
(***************************************************************************)

\* cap() of a slice built by appending n elements one at a time to nil.
RECURSIVE GoCap(_)
GoCap(n) ==
    IF n = 0 THEN 0
    ELSE LET c == GoCap(n - 1) IN
         IF n <= c THEN c ELSE IF c = 0 THEN 1 ELSE 2 * c

\* sort.Slice by CacheDirName on a short slice: insertion sort.
RECURSIVE insertByName(_, _)
insertByName(sorted, m) ==
    IF sorted = <<>> THEN <<m>>
    ELSE LET z == sorted[Len(sorted)] IN
         IF StrLess(m.CacheDirName, z.CacheDirName)
         THEN Append(insertByName(SubSeq(sorted, 1, Len(sorted) - 1), m), z)
         ELSE Append(sorted, m)

RECURSIVE sortByName(_)
sortByName(list) ==
    IF list = <<>> THEN <<>>
    ELSE insertByName(sortByName(SubSeq(list, 1, Len(list) - 1)), list[Len(list)])

\* combined := append(models, stale...) followed by sort.Slice(combined):
\* when the stale records fit in the spare capacity of models, combined
\* shares its array and the sort reorders what models holds.
appendAndSort(models, stale) ==
    LET combined == sortByName(models \o stale)
        shared == Len(models) + Len(stale) <= GoCap(Len(models))
    IN  [models |-> IF shared THEN SubSeq(combined, 1, Len(models)) ELSE models,
         stale |-> stale,
         combined |-> combined]

Status(k, a) == [k |-> k, arg |-> a]

\* New(targetDir, logger): the errors of the two discovery calls are
\* assigned to the blank identifier.
New(e, s, t) ==
    LET models == LoadModelsResult(e, s, t).models
        stale == FindStaleLinksResult(e, s, t).stale
        lists == appendAndSort(models, stale)
    IN  [models |-> lists.models, stale |-> lists.stale, combined |-> lists.combined,
         items |-> lists.combined, cursor |-> 1,
         status |-> Status("Found", <<Len(models), Len(stale)>>),
         loading |-> FALSE,
         searching |-> FALSE, searchQuery |-> <<>>, searchMatches |-> Len(lists.combined),
         panicked |-> FALSE]

NoMsg == [type |-> "none", status |-> Status("", <<>>), models |-> <<>>, stale |-> <<>>]
errorMsg(k, name, err) ==
    [type |-> "error", status |-> Status(k, <<name, err>>), models |-> <<>>, stale |-> <<>>]

\* updateState(targetDir, status): the errors of the two discovery calls
\* are assigned to the blank identifier.
updateState(e, s, t, status) ==
    [type |-> "opResult", status |-> status,
     models |-> LoadModelsResult(e, s, t).models,
     stale |-> FindStaleLinksResult(e, s, t).stale]

\* A command in its goroutine: its input records, the index of the next one,
\* the successes counted, the engine calls made, and the message it returns.
\* A command: the closure over the records and the logger it was given; att
\* is the history of its engine calls, log the lines it wrote with
\* logger.Error.
Cmd(kind, items) ==
    [kind |-> kind, items |-> items, idx |-> 1, count |-> 0, att |-> <<>>,
     phase |-> "run", msg |-> NoMsg, verbose |-> env.Verbose, log |-> <<>>]

\* if err != nil { if logger != nil && logger.Verbose { logger.Error(...) } }
logError(p, m, err) ==
    IF err # "nil" /\ p.verbose
    THEN Append(p.log, [rec |-> m, op |-> IF p.kind \in {"link", "linkAll"}
                                          THEN "link" ELSE "unlink", err |-> err])
    ELSE p.log

\* At most this many commands dispatched and not yet handled.
MaxInFlight == 2

\* m.list.SelectedItem(): nil when the index is past the end.
HasSelected == ui.cursor \in 1..Len(ui.items)
SelectedItem == ui.items[ui.cursor]

\* At most this many commands dispatched in a run.
MaxDispatch == 2

Dispatch(status, cmd) ==
    /\ ~ui.panicked
    /\ build = "viewport" => ~ui.searching
    /\ Len(procs) < MaxInFlight
    /\ dispatched < MaxDispatch
    /\ dispatched' = dispatched + 1
    /\ ui' = [ui EXCEPT !.status = status, !.loading = (build = "list")]
    /\ procs' = Append(procs, cmd)
    /\ UNCHANGED <<written, env, build, src, tgt, orgs, last>>

\* Update, tea.KeyMsg "l"
KeyLink ==
    /\ Len(ui.items) > 0 /\ HasSelected
    /\ ~SelectedItem.IsStale /\ ~SelectedItem.IsLinked
    /\ Dispatch(Status("Linking model", <<SelectedItem.ModelName>>),
                Cmd("link", <<SelectedItem>>))

\* Mutant of KeyUnlink: the selected record's IsLinked is not looked at.
KeyUnlinkAnyState ==
    /\ Len(ui.items) > 0 /\ HasSelected
    /\ ~SelectedItem.IsStale
    /\ Dispatch(Status("Unlinking model", <<SelectedItem.ModelName>>),
                Cmd("unlink", <<SelectedItem>>))

\* Update, tea.KeyMsg "u"
KeyUnlink ==
    /\ Len(ui.items) > 0 /\ HasSelected
    /\ ~SelectedItem.IsStale /\ SelectedItem.IsLinked
    /\ Dispatch(Status("Unlinking model", <<SelectedItem.ModelName>>),
                Cmd("unlink", <<SelectedItem>>))

\* Update, tea.KeyMsg "c"
KeyPurge ==
    /\ Len(ui.items) > 0 /\ HasSelected
    /\ SelectedItem.IsStale
    /\ Dispatch(Status("Purging stale model", <<SelectedItem.ModelName>>),
                Cmd("purge", <<SelectedItem>>))

\* Update, tea.KeyMsg "L", "U", "C"
KeyLinkAll == Dispatch(Status("Linking all models...", <<>>), Cmd("linkAll", ui.models))
KeyUnlinkAll == Dispatch(Status("Unlinking all models...", <<>>), Cmd("unlinkAll", ui.models))
KeyPurgeAll == Dispatch(Status("Purging all stale links...", <<>>), Cmd("purgeAll", ui.stale))

\* Update, a navigation key: in the list build handled by m.list.Update,
\* which moves the cursor within the items (line, page, start, end); in the
\* viewport build "up"/"k" and "down"/"j" move selectedIndex by one.
KeyNav ==
    /\ ~ui.panicked
    /\ build = "viewport" => ~ui.searching
    /\ \E i \in 1..(Len(ui.items) + ui.cursor) :
          /\ i # ui.cursor
          /\ IF build = "viewport"
             THEN \/ i = ui.cursor - 1
                  \/ i = ui.cursor + 1 /\ ui.cursor < Len(ui.items)
             ELSE i <= Len(ui.items)
          /\ ui' = [ui EXCEPT !.cursor = i]
    /\ UNCHANGED <<written, env, build, src, tgt, orgs, last, procs, dispatched>>

\* strings.ToLower on the characters a query may hold.
ToLower(s) ==
    [i \in 1..Len(s) |-> CASE s[i] = "A" -> "a" [] s[i] = "Y" -> "y" [] OTHER -> s[i]]

\* strings.Contains(s, sub)
ContainsStr(s, sub) ==
    \E i \in 0..(Len(s) - Len(sub)) : SubSeq(s, i + 1, i + Len(sub)) = sub

\* updateSearch of the viewport build: m.filtered becomes the records of
\* m.combined whose model or organization name contains the query, whatever
\* the case; selectedIndex is left as it is.
updateSearch(m) ==
    IF m.searchQuery = <<>>
    THEN [m EXCEPT !.items = m.combined, !.searchMatches = Len(m.combined),
                   !.status = Status("Search", <<m.searchQuery>>)]
    ELSE LET query == ToLower(m.searchQuery)
             Match(item) == \/ ContainsStr(ToLower(item.ModelName), query)
                            \/ ContainsStr(ToLower(item.OrganizationName), query)
             filtered == SelectSeq(m.combined, Match)
         IN  [m EXCEPT !.items = filtered, !.searchMatches = Len(filtered),
                       !.status = Status("Search matches", <<m.searchQuery, Len(filtered)>>)]

\* The keys a query is typed with, and the longest query typed.
SearchKeys == {"a", "Y"}
MaxQuery == 1

UIOnly == UNCHANGED <<written, env, build, src, tgt, orgs, last, procs, dispatched>>

\* Update of the viewport build, tea.KeyMsg "/" in normal mode.
KeySearch ==
    /\ build = "viewport" /\ ~ui.panicked /\ ~ui.searching
    /\ ui' = [ui EXCEPT !.searching = TRUE, !.status = Status("Search", <<ui.searchQuery>>)]
    /\ UIOnly

\* Update of the viewport build in search mode: "esc"/"ctrl+c", "ctrl+u",
\* "enter", "backspace", and any other key of one character.
SearchCancel ==
    /\ build = "viewport" /\ ~ui.panicked /\ ui.searching
    /\ ui' = [ui EXCEPT !.searching = FALSE, !.searchQuery = <<>>,
                        !.items = ui.combined, !.searchMatches = Len(ui.combined),
                        !.status = Status("Search cancelled",
                                          <<Len(ui.models), Len(ui.stale)>>)]
    /\ UIOnly

SearchClear ==
    /\ build = "viewport" /\ ~ui.panicked /\ ui.searching
    /\ ui' = updateSearch([ui EXCEPT !.searchQuery = <<>>])
    /\ UIOnly

SearchAccept ==
    /\ build = "viewport" /\ ~ui.panicked /\ ui.searching
    /\ ui' = [ui EXCEPT !.searching = FALSE,
                        !.status = Status("Found matches", <<ui.searchMatches>>)]
    /\ UIOnly

SearchBackspace ==
    /\ build = "viewport" /\ ~ui.panicked /\ ui.searching
    /\ Len(ui.searchQuery) > 0
    /\ ui' = updateSearch([ui EXCEPT !.searchQuery = SubSeq(@, 1, Len(@) - 1)])
    /\ UIOnly

SearchType(c) ==
    /\ build = "viewport" /\ ~ui.panicked /\ ui.searching
    /\ Len(ui.searchQuery) < MaxQuery
    /\ ui' = updateSearch([ui EXCEPT !.searchQuery = Append(@, c)])
    /\ UIOnly

\* Update of the viewport build, "l", "u" or "c" in normal mode with
\* selectedIndex past the end of a non-empty m.filtered: the index expression
\* m.filtered[m.selectedIndex] panics and the program ends.
KeyIndexOutOfRange ==
    /\ build = "viewport" /\ ~ui.panicked /\ ~ui.searching
    /\ Len(ui.items) > 0 /\ ui.cursor > Len(ui.items)
    /\ ui' = [ui EXCEPT !.panicked = TRUE]
    /\ UIOnly

Aggregates == {"linkAll", "unlinkAll", "purgeAll"}

\* Mutant of Applies: the loop calls the engine for every record.
AppliesAlways(kind, m) == TRUE

\* The condition under which a command's loop calls the engine for a record.
Applies(kind, m) ==
    CASE kind = "linkAll" -> ~m.IsLinked
      [] kind = "unlinkAll" -> m.IsLinked
      [] OTHER -> TRUE

\* The engine call a command makes for a record.
EngineCall(kind, m, s, t, o) ==
    IF kind \in {"link", "linkAll"} THEN LinkModel(m, s, t, o) ELSE UnlinkModel(m, s, t, o)

OpName(kind) == IF kind \in {"link", "linkAll"} THEN "link" ELSE "unlink"

\* Mutant of aggregateStep: the loop is left at the first error.
aggregateStepAbort(p, s, t, o) ==
    LET m == p.items[p.idx] IN
    IF Applies(p.kind, m)
    THEN LET res == EngineCall(p.kind, m, s, t, o) IN
         [proc |-> [p EXCEPT !.idx = IF res.err = "nil" THEN p.idx + 1
                                      ELSE Len(p.items) + 1,
                             !.count = IF res.err = "nil" THEN p.count + 1 ELSE p.count,
                             !.att = Append(p.att, [rec |-> m, op |-> OpName(p.kind),
                                                    err |-> res.err])],
          tgt |-> res.tgt, orgs |-> res.orgs, written |-> res.written]
    ELSE [proc |-> [p EXCEPT !.idx = p.idx + 1], tgt |-> t, orgs |-> o, written |-> {}]

\* One iteration of the loop of linkAllCmd, unlinkAllCmd or purgeAllCmd: an
\* error is logged (in verbose mode) and the loop goes on.
aggregateStep(p, s, t, o) ==
    LET m == p.items[p.idx] IN
    IF Applies(p.kind, m)
    THEN LET res == EngineCall(p.kind, m, s, t, o) IN
         [proc |-> [p EXCEPT !.idx = p.idx + 1,
                             !.count = IF res.err = "nil" THEN p.count + 1 ELSE p.count,
                             !.att = Append(p.att, [rec |-> m, op |-> OpName(p.kind),
                                                    err |-> res.err]),
                             !.log = logError(p, m, res.err)],
          tgt |-> res.tgt, orgs |-> res.orgs, written |-> res.written]
    ELSE [proc |-> [p EXCEPT !.idx = p.idx + 1], tgt |-> t, orgs |-> o, written |-> {}]

ErrorText(kind) ==
    CASE kind = "link" -> "Error linking model"
      [] kind = "unlink" -> "Error unlinking model"
      [] OTHER -> "Error purging model"

\* The engine call of linkModelCmd, unlinkModelCmd or purgeModelCmd: an error
\* becomes the command's message.
singleStep(p, s, t, o) ==
    LET m == p.items[p.idx]
        res == EngineCall(p.kind, m, s, t, o)
        q == [p EXCEPT !.idx = p.idx + 1,
                       !.count = IF res.err = "nil" THEN p.count + 1 ELSE p.count,
                       !.att = Append(p.att, [rec |-> m, op |-> OpName(p.kind),
                                              err |-> res.err]),
                       !.log = logError(p, m, res.err)]
    IN  [proc |-> IF res.err = "nil" THEN q
                  ELSE [q EXCEPT !.phase = "send",
                                 !.msg = errorMsg(ErrorText(p.kind), m.ModelName, res.err)],
         tgt |-> res.tgt, orgs |-> res.orgs, written |-> res.written]

cmdStep(p, s, t, o) ==
    IF p.kind \in Aggregates THEN aggregateStep(p, s, t, o) ELSE singleStep(p, s, t, o)

\* A command's goroutine makes its next engine call.
CmdItem(i) ==
    /\ ~ui.panicked
    /\ procs[i].phase = "run"
    /\ procs[i].idx <= Len(procs[i].items)
    /\ LET r == cmdStep(procs[i], src, tgt, orgs) IN
       /\ procs' = [procs EXCEPT ![i] = r.proc]
       /\ tgt' = r.tgt
       /\ orgs' = r.orgs
       /\ env' = AfterMkdirAll(env, r.tgt, procs[i].items[procs[i].idx].TargetPath)
       /\ written' = written \cup r.written
    /\ UNCHANGED <<build, src, last, ui, dispatched>>

\* The status a command passes to updateState.  The aggregate commands of
\* the list build format their counter into it; those of the viewport build
\* pass a fixed text, and its purgeAllCmd formats len(stale).
DoneStatus(p) ==
    CASE p.kind = "link" -> Status("Linked model", <<p.items[1].ModelName>>)
      [] p.kind = "unlink" -> Status("Unlinked model", <<p.items[1].ModelName>>)
      [] p.kind = "purge" -> Status("Purged stale model", <<p.items[1].ModelName>>)
      [] p.kind = "linkAll" /\ build = "list" ->
            Status("Successfully linked models", <<p.count>>)
      [] p.kind = "unlinkAll" /\ build = "list" ->
            Status("Successfully unlinked models", <<p.count>>)
      [] p.kind = "purgeAll" /\ build = "list" ->
            Status("Successfully purged stale links", <<p.count>>)
      [] p.kind = "linkAll" -> Status("All models linked successfully", <<>>)
      [] p.kind = "unlinkAll" -> Status("All models unlinked successfully", <<>>)
      [] OTHER -> Status("Purged stale links", <<Len(p.items)>>)

\* A command whose engine calls are made rediscovers and returns.
CmdUpdateState(i) ==
    /\ ~ui.panicked
    /\ procs[i].phase = "run"
    /\ procs[i].idx > Len(procs[i].items)
    /\ procs' = [procs EXCEPT ![i] = [@ EXCEPT !.phase = "send",
                    !.msg = updateState(env, src, tgt, DoneStatus(procs[i]))]]
    /\ UNCHANGED <<written, env, build, src, tgt, orgs, last, ui, dispatched>>

\* Mutant of handleMsg: an errorMsg leaves the loading indicator as it is.
handleMsgKeepLoading(m, msg) ==
    IF msg.type = "opResult"
    THEN LET lists == appendAndSort(msg.models, msg.stale) IN
         [m EXCEPT !.status = msg.status, !.models = lists.models,
                   !.stale = lists.stale, !.combined = lists.combined,
                   !.items = lists.combined, !.loading = FALSE,
                   !.cursor = IF build = "viewport" /\ @ > Len(lists.combined)
                              THEN 1 ELSE @]
    ELSE [m EXCEPT !.status = msg.status]

\* Update, opResultMsg and errorMsg.  The viewport build puts selectedIndex
\* back to the first item when it is past the end of the new list.
handleMsg(m, msg) ==
    IF msg.type = "opResult"
    THEN LET lists == appendAndSort(msg.models, msg.stale)
             n == [m EXCEPT !.status = msg.status, !.models = lists.models,
                            !.stale = lists.stale, !.combined = lists.combined,
                            !.items = lists.combined, !.loading = FALSE]
             f == IF build = "viewport" /\ m.searching THEN updateSearch(n) ELSE n
         IN  [f EXCEPT !.cursor = IF build = "viewport" /\ @ > Len(f.items)
                                  THEN 1 ELSE @]
    ELSE [m EXCEPT !.status = msg.status, !.loading = FALSE]

RemoveAt(seq, i) == SubSeq(seq, 1, i - 1) \o SubSeq(seq, i + 1, Len(seq))

\* The runtime hands a returned message to Update.
Deliver(i) ==
    /\ ~ui.panicked
    /\ procs[i].phase = "send"
    /\ ui' = handleMsg(ui, procs[i].msg)
    /\ procs' = RemoveAt(procs, i)
    /\ UNCHANGED <<written, env, build, src, tgt, orgs, last, dispatched>>

Init ==
    /\ InitDisk
    /\ last = NoCall
    /\ env = EnvOk
    /\ ui = New(env, src, tgt)
    /\ procs = <<>>
    /\ dispatched = 0
    /\ build = "list"

\* The front end is run on the caches of this shape.
ShapesUI(n) ==
    CASE n = dirAX -> {ShOne, ShDup}
      [] n = dirBY -> {ShOne}
      [] n = dirDAX -> {ShOne}
      [] OTHER -> {ShNoSnap}

InitUI ==
    /\ Init
    /\ \A n \in DOMAIN src : src[n] \in ShapesUI(n)
    /\ tgt[TPath(orgA, nameX)] \in {Absent, UserDir, OldLink(TPath(orgA, nameX), FALSE)}
    /\ tgt[TPath(orgB, nameY)] # UserDir

Next ==
    \/ \E r \in Records(src) : CallLinkModel(r)
    \/ \E r \in Records(src) : CallUnlinkModel(r)
    \/ CallLoadModels
    \/ CallFindStaleLinks

Spec == Init /\ [][Next]_vars

\* The engine's calls interleaved with deletions from the cache.
NextEnv ==
    \/ Next
    \/ \E n \in DOMAIN src : DeleteSource(n)

SpecEnv == Init /\ [][NextEnv]_vars

NextUI ==
    \/ KeyLink
    \/ KeyUnlink
    \/ KeyPurge
    \/ KeyLinkAll
    \/ KeyUnlinkAll
    \/ KeyPurgeAll
    \/ KeyNav
    \/ \E i \in 1..Len(procs) : CmdItem(i)
    \/ \E i \in 1..Len(procs) : CmdUpdateState(i)
    \/ \E i \in 1..Len(procs) : Deliver(i)

SpecUI == InitUI /\ [][NextUI]_vars

\* A directory of the target root, between the two organizations in the order
\* of the walk, that the user may be unable to read.
strayAB == <<"a", "b">>

\* The runs: a root may be missing, strayAB unreadable, --verbose off.  A
\* missing root holds nothing.
Envs ==
    [hfCache : BOOLEAN, targetDir : BOOLEAN, unreadable : {{}, {strayAB}},
     Verbose : BOOLEAN, GOOS : {EnvOk.GOOS}, XDG_CACHE_HOME : {EnvOk.XDG_CACHE_HOME},
     LOCALAPPDATA : {EnvOk.LOCALAPPDATA}, home : {EnvOk.home}]

EnvFitsDisk ==
    /\ ~env.hfCache => src = <<>>
    /\ ~env.targetDir => env.unreadable = {} /\ \A p \in DOMAIN tgt : ~tgt[p].exists

\* The operating systems, variables and home directories the resolvers of
\* the two roots are run with.
RootEnvs ==
    {[EnvOk EXCEPT !.GOOS = g, !.XDG_CACHE_HOME = x, !.LOCALAPPDATA = l, !.home = h] :
        g \in {"windows", "darwin", "linux", "freebsd"},
        x \in {Unset, SetTo(""), SetTo("/xdg")},
        l \in {Unset, SetTo(""), SetTo("C:/lad")},
        h \in {HomeIs("/home/u"), NoHome}}

InitRoots ==
    /\ written = {}
    /\ src = <<>>
    /\ tgt = [p \in TPaths |-> Absent]
    /\ orgs = {}
    /\ last = NoCall
    /\ env \in RootEnvs
    /\ ui = New(env, src, tgt)
    /\ procs = <<>>
    /\ dispatched = 0
    /\ build = "list"

CallGetHfCacheDir ==
    /\ last' = [NoCall EXCEPT !.op = "GetHfCacheDir", !.out = GetHfCacheDir(env).path,
                              !.err = GetHfCacheDir(env).err]
    /\ UNCHANGED <<written, env, build, src, tgt, orgs, ui, procs, dispatched>>

CallGetLmStudioModelsDir ==
    /\ last' = [NoCall EXCEPT !.op = "GetLmStudioModelsDir",
                              !.out = GetLmStudioModelsDir(env).path,
                              !.err = GetLmStudioModelsDir(env).err]
    /\ UNCHANGED <<written, env, build, src, tgt, orgs, ui, procs, dispatched>>

NextRoots ==
    \/ CallGetHfCacheDir
    \/ CallGetLmStudioModelsDir

SpecRoots == InitRoots /\ [][NextRoots]_vars

\* Directory names of two and of four segments: a--x and models--d--a--x.
dirTwo == orgA \o Sep \o nameX
dirFour == ModelsPrefix \o <<"d">> \o Sep \o orgA \o Sep \o nameX

SegNames == {dirTwo, dirAX, dirFour, dirPlain}
SegShapes == {ShOne, ShNoSnap, ShFile}

\* The engine called directly on caches whose entries have one to four
\* segments and are directories or regular files.
InitNames ==
    /\ written = {}
    /\ src \in UNION {[D -> SegShapes] :
                      D \in {D \in SUBSET SegNames : Cardinality(D) <= MaxEntries}}
    /\ tgt \in TgtConfigs
    /\ orgs = {p[1] : p \in {q \in TPaths : tgt[q].exists}}
    /\ last = NoCall
    /\ env = EnvOk
    /\ ui = New(env, src, tgt)
    /\ procs = <<>>
    /\ dispatched = 0
    /\ build = "list"

SpecNames == InitNames /\ [][Next]_vars

\* The program started on a cache of up to three model directories that all
\* sort around models--b--y, whose link may have been left in the target root
\* after its cache directory was deleted.
ThreeNames == {dirDAX, dirAX, dirFour}

InitThree ==
    /\ written = {}
    /\ src \in UNION {[D -> {ShOne}] : D \in SUBSET ThreeNames}
    /\ tgt \in {t \in [TPaths -> {Absent, OldLink(TPath(orgB, nameY), FALSE)}] :
                    ~t[TPath(orgA, nameX)].exists}
    /\ orgs = {p[1] : p \in {q \in TPaths : tgt[q].exists}}
    /\ last = NoCall
    /\ env = EnvOk
    /\ ui = New(env, src, tgt)
    /\ procs = <<>>
    /\ dispatched = 0
    /\ build = "list"

SpecThree == InitThree /\ [][NextUI]_vars

\* The engine called directly on a target root where the organization of
\* a/x holds a second directory, a/y, which no record of the run names.
siblingAY == TPath(orgA, nameY)

InitSiblings ==
    /\ written = {}
    /\ src \in {s \in SrcConfigs : DOMAIN s \subseteq {dirAX}}
    /\ tgt \in {t \in [TPaths \cup {siblingAY} ->
                          {Absent, UserDir} \cup
                          {OldLink(p, FALSE) : p \in TPaths \cup {siblingAY}}] :
                    /\ t[siblingAY].exists
                    /\ \A p \in DOMAIN t : t[p].marker => t[p] = OldLink(p, FALSE)}
    /\ orgs = {p[1] : p \in {q \in DOMAIN tgt : tgt[q].exists}}
    /\ last = NoCall
    /\ env = EnvOk
    /\ ui = New(env, src, tgt)
    /\ procs = <<>>
    /\ dispatched = 0
    /\ build = "list"

SpecSiblings == InitSiblings /\ [][Next]_vars

\* The engine called directly on a target root where a directory may have
\* lost its read permission.
InitUnreadable ==
    /\ written = {}
    /\ src \in {s \in SrcConfigs : DOMAIN s \subseteq {dirAX, dirBY}}
    /\ tgt \in {t \in [TPaths -> {Absent, UserDir, NoRead(UserDir)} \cup
                                 {OldLink(p, FALSE) : p \in TPaths} \cup
                                 {NoRead(OldLink(p, FALSE)) : p \in TPaths}] :
                    \A p \in TPaths :
                        t[p].marker => t[p] \in {OldLink(p, FALSE), NoRead(OldLink(p, FALSE))}}
    /\ orgs = {p[1] : p \in {q \in TPaths : tgt[q].exists}}
    /\ last = NoCall
    /\ env = EnvOk
    /\ ui = New(env, src, tgt)
    /\ procs = <<>>
    /\ dispatched = 0
    /\ build = "list"

SpecUnreadable == InitUnreadable /\ [][Next]_vars

\* The engine called directly on caches where a snapshot may hold a file named
\* like the marker.
DotShapes(n) == IF n = dirAX THEN {ShOne, ShDotFile, ShDotDangling} ELSE Shapes(n)

InitDotFile ==
    /\ written = {}
    /\ src \in UNION {{f \in [D -> UNION {DotShapes(n) : n \in D}] :
                            \A n \in D : f[n] \in DotShapes(n)} :
                      D \in {D \in SUBSET SrcNames : Cardinality(D) <= MaxEntries}}
    /\ tgt \in TgtConfigs
    /\ orgs = {p[1] : p \in {q \in TPaths : tgt[q].exists}}
    /\ last = NoCall
    /\ env = EnvOk
    /\ ui = New(env, src, tgt)
    /\ procs = <<>>
    /\ dispatched = 0
    /\ build = "list"

SpecDotFile == InitDotFile /\ [][Next]_vars

\* The engine called directly on file systems where discovery can fail.
InitFaults ==
    /\ InitDisk
    /\ last = NoCall
    /\ env \in {e \in Envs : e.Verbose}
    /\ EnvFitsDisk
    /\ ui = New(env, src, tgt)
    /\ procs = <<>>
    /\ dispatched = 0
    /\ build = "list"

SpecFaults == InitFaults /\ [][Next]_vars

\* The front end on file systems where discovery can fail.
InitFaultsUI ==
    /\ InitDisk
    /\ last = NoCall
    /\ env \in Envs
    /\ EnvFitsDisk
    /\ ui = New(env, src, tgt)
    /\ procs = <<>>
    /\ dispatched = 0
    /\ build = "list"
    /\ \A n \in DOMAIN src : src[n] \in ShapesUI(n)
    /\ tgt[TPath(orgA, nameX)] \in {Absent, OldLink(TPath(orgA, nameX), FALSE)}
    /\ tgt[TPath(orgB, nameY)] # UserDir

SpecFaultsUI == InitFaultsUI /\ [][NextUI]_vars

\* The front end of the viewport build on the same file systems.
InitViewport ==
    /\ InitDisk
    /\ last = NoCall
    /\ env = EnvOk
    /\ ui = New(env, src, tgt)
    /\ procs = <<>>
    /\ dispatched = 0
    /\ build = "viewport"
    /\ \A n \in DOMAIN src : src[n] \in ShapesUI(n)
    /\ tgt[TPath(orgA, nameX)] \in {Absent, UserDir, OldLink(TPath(orgA, nameX), FALSE)}
    /\ tgt[TPath(orgB, nameY)] # UserDir

SpecViewport == InitViewport /\ [][NextUI]_vars

\* The viewport build with its search mode, on caches of whole models.
InitSearch ==
    /\ written = {}
    /\ src \in UNION {[D -> {ShOne}] : D \in SUBSET {dirAX, dirBY}}
    /\ tgt \in [TPaths -> {Absent}] \cup {[p \in TPaths |-> OldLink(p, FALSE)]}
    /\ orgs = {p[1] : p \in {q \in TPaths : tgt[q].exists}}
    /\ last = NoCall
    /\ env = EnvOk
    /\ ui = New(env, src, tgt)
    /\ procs = <<>>
    /\ dispatched = 0
    /\ build = "viewport"

NextSearch ==
    \/ NextUI
    \/ KeySearch
    \/ SearchCancel
    \/ SearchClear
    \/ SearchAccept
    \/ SearchBackspace
    \/ \E c \in SearchKeys : SearchType(c)
    \/ KeyIndexOutOfRange

SpecSearch == InitSearch /\ [][NextSearch]_vars

(***************************************************************************)
(* Properties                                                              *)
(***************************************************************************)

LastTarget == last.rec.TargetPath
LastDirBefore == DirAt(last.before, LastTarget)
LastSnapshotsPath ==
    SrcPath(last.rec.SourcePath.entry, Append(last.rec.SourcePath.sub, snapshotsDir))

C2_MarkerlessUntouched ==
    \A p \in DOMAIN tgt :
        (last.op # "none" /\ last.before[p] = UserDir) => tgt[p] = UserDir

\* C3: Unlink on a record whose target directory exists without the marker
\* returns no error and changes nothing in the target tree.
C3_UnlinkWithoutMarker ==
    (last.op = "unlink" /\ LastDirBefore.exists /\ ~LastDirBefore.marker) =>
        /\ last.err = "nil"
        /\ tgt = last.before
        /\ orgs = last.orgsBefore

C3_Witness ==
    /\ last.op = "unlink"
    /\ LastDirBefore = UserDir

\* Every symbolic link of a target directory resolves to an existing file.
AllLinksResolve(p) ==
    \A f \in DirAt(tgt, p).files : f.kind = "symlink" => RealExists(src, f.to)

\* C4: a record that LoadModels reports linked has a target directory with
\* the marker whose symbolic links all resolve.
C4_LinkedOnlyIfLinksResolve ==
    last.op = "load" =>
        \A i \in 1..Len(last.out) :
            last.out[i].IsLinked =>
                /\ HasMarker(tgt, last.out[i].TargetPath)
                /\ AllLinksResolve(last.out[i].TargetPath)

\* C5: Link returns an error when the source path is no existing directory,
\* and an error when the source path is a directory without a snapshots
\* subdirectory.
C5_LinkSourceErrors ==
    last.op = "link" =>
        /\ SrcStat(src, last.rec.SourcePath) # "dir" => last.err = "SourceMissing"
        /\ (SrcStat(src, last.rec.SourcePath) = "dir"
            /\ SrcStat(src, LastSnapshotsPath) # "dir") => last.err = "SnapshotsMissing"

C5_Witness ==
    /\ last.op = "link"
    /\ SrcStat(src, last.rec.SourcePath) = "dir"
    /\ SrcStat(src, LastSnapshotsPath) # "dir"
    /\ last.err = "SnapshotsMissing"

\* C6: after a Link that returned no error, the target directory holds the
\* marker and, beside it, only symbolic links, each pointing at an existing
\* regular file: never at a link of the snapshot.
C6_LinksPointAtRealFiles ==
    (last.op = "link" /\ last.err = "nil") =>
        /\ HasMarker(tgt, LastTarget)
        /\ \A f \in DirAt(tgt, LastTarget).files :
              /\ f.kind = "symlink"
              /\ f.to.where \in {"snap", "blob"}
              /\ RealExists(src, f.to)

C6_Witness ==
    /\ last.op = "link" /\ last.err = "nil"
    /\ \E f \in DirAt(tgt, LastTarget).files : f.to.where = "blob"
    /\ \E f \in DirAt(tgt, LastTarget).files : f.to.where = "snap"

\* C7: at most one dispatched command is executing at any time.
C7_OneCommandInFlight ==
    Cardinality({i \in 1..Len(procs) : procs[i].phase = "run"}) <= 1

\* C8: once every dispatched command has completed and its message has been
\* handled, the lists of the front end are what discovery returns on the
\* file system as it is.
C8_ViewMatchesDisk ==
    procs = <<>> =>
        /\ ui.models = LoadModels(src, tgt)
        /\ ui.stale = FindStaleLinks(src, tgt)

\* The precondition of an aggregate operation, as the claims state it.
ClaimedPrecondition(kind, m) ==
    CASE kind = "linkAll" -> m.IsLinked = FALSE
      [] kind = "unlinkAll" -> m.IsLinked = TRUE
      [] OTHER -> TRUE

Attempted(p) == [j \in 1..Len(p.att) |-> p.att[j].rec]

MatchingPrefix(p) ==
    LET Test(m) == ClaimedPrecondition(p.kind, m)
    IN  SelectSeq(SubSeq(p.items, 1, p.idx - 1), Test)

\* C9: an aggregate command has called the engine exactly once, in input
\* order, for every record it has passed that matches its precondition,
\* whatever those calls returned; it returns only after the last record.
C9_AggregateNeverAborts ==
    \A i \in 1..Len(procs) :
        procs[i].kind \in Aggregates =>
            /\ Attempted(procs[i]) = MatchingPrefix(procs[i])
            /\ procs[i].phase = "send" => procs[i].idx = Len(procs[i].items) + 1

C9_Witness ==
    \E i \in 1..Len(procs) :
        /\ procs[i].kind \in Aggregates
        /\ procs[i].phase = "send"
        /\ \E j, k \in 1..Len(procs[i].att) : j < k /\ procs[i].att[j].err # "nil"

\* The engine calls of an aggregate command are those its precondition allows.
OnlyMatchingCalls ==
    \A i \in 1..Len(procs) :
        LET p == procs[i] IN
        /\ p.kind = "linkAll" =>
              \A j \in 1..Len(p.att) : p.att[j].op = "link" /\ ~p.att[j].rec.IsLinked
        /\ p.kind = "unlinkAll" =>
              \A j \in 1..Len(p.att) : p.att[j].op = "unlink" /\ p.att[j].rec.IsLinked
        /\ p.kind = "purgeAll" =>
              /\ \A j \in 1..Len(p.att) : p.att[j].op = "unlink"
              /\ Attempted(p) = SubSeq(p.items, 1, p.idx - 1)

\* A step in which an aggregate command passes a record that does not match
\* its precondition.
SkipsRecord(i) ==
    /\ i <= Len(procs')
    /\ procs[i].kind \in Aggregates
    /\ procs[i].phase = "run"
    /\ procs[i].idx <= Len(procs[i].items)
    /\ ~ClaimedPrecondition(procs[i].kind, procs[i].items[procs[i].idx])
    /\ procs'[i].kind = procs[i].kind
    /\ procs'[i].items = procs[i].items
    /\ procs'[i].idx = procs[i].idx + 1

\* C10: LinkAll calls Link only for records with IsLinked false, UnlinkAll
\* calls Unlink only for records with IsLinked true, PurgeAllStale calls
\* Unlink for every record; passing a record that does not match leaves the
\* target tree as it is.
C10_AggregatePreconditions ==
    /\ []OnlyMatchingCalls
    /\ [][\A i \in 1..Len(procs) : SkipsRecord(i) => (tgt' = tgt /\ orgs' = orgs)]_vars

C10_Witness ==
    \E i \in 1..Len(procs) :
        /\ procs[i].kind = "linkAll"
        /\ procs[i].phase = "send"
        /\ Len(procs[i].att) >= 1
        /\ \E j \in 1..Len(procs[i].items) :
              /\ procs[i].items[j].IsLinked
              /\ DirAt(tgt, procs[i].items[j].TargetPath).exists

\* The engine calls of a command that returned no error.
Successes(p) == Cardinality({j \in 1..Len(p.att) : p.att[j].err = "nil"})

\* C11: the number in the status an aggregate command returns is the number
\* of its engine calls that returned no error, also when some of them failed.
C11_ReportsSuccessCount ==
    \A i \in 1..Len(procs) :
        LET p == procs[i] IN
        (p.kind \in Aggregates /\ p.phase = "send" /\ Len(p.msg.status.arg) = 1) =>
            p.msg.status.arg[1] = Successes(p)

\* A target directory as a successful Link from a source artifact that still
\* exists leaves it: the marker, and links that all resolve into the cache.
LinkedFromExisting(p) ==
    /\ HasMarker(tgt, p)
    /\ DirAt(tgt, p).files # {}
    /\ \A f \in DirAt(tgt, p).files : f.kind = "symlink" /\ RealExists(src, f.to)

\* C12: every record FindStaleLinks returns names a target directory that
\* holds the marker and was not linked from a source artifact that still
\* exists, whatever the name of that artifact's directory.
C12_StaleOnlyIfSourceGone ==
    last.op = "stale" =>
        \A i \in 1..Len(last.out) :
            /\ HasMarker(tgt, last.out[i].TargetPath)
            /\ ~LinkedFromExisting(last.out[i].TargetPath)

\* The directories of the target tree that hold the marker.
Marked == {p \in DOMAIN tgt : HasMarker(tgt, p)}

\* The cache directory a marked target directory corresponds to.
CorrespondingSource(p) == ModelsPrefix \o p[1] \o Sep \o p[2]

\* C13: FindStaleLinks on a target tree with exactly one marked directory,
\* whose corresponding source artifact does not exist, returns exactly one
\* record: stale, with a reason, its TargetPath that directory.
C13_OneStaleRecord ==
    (last.op = "stale" /\ Cardinality(Marked) = 1) =>
        \A p \in Marked :
            CorrespondingSource(p) \notin DOMAIN src =>
                /\ Len(last.out) = 1
                /\ last.out[1].IsStale
                /\ last.out[1].StaleReason # ""
                /\ last.out[1].TargetPath = p

C13_Witness ==
    /\ last.op = "stale"
    /\ Cardinality(Marked) = 1
    /\ \A p \in Marked : CorrespondingSource(p) \notin DOMAIN src
    /\ \E q \in DOMAIN tgt : tgt[q] = UserDir
    /\ Len(last.out) = 1

\* The organizations and names a models--ORG--NAME directory is made of.
OrgNames == {orgA, orgB}
ModelNames == {nameX, nameY}

\* C14: for every directory models--ORG--NAME of the cache root, LoadModels
\* returns exactly one record, with OrganizationName ORG, ModelName NAME and
\* TargetPath <targetDir>/ORG/NAME.
C14_OneRecordPerModelDir ==
    last.op = "load" =>
        \A o \in OrgNames, n \in ModelNames :
            LET d == ModelsPrefix \o o \o Sep \o n
                hits == {i \in 1..Len(last.out) : last.out[i].CacheDirName = d}
            IN  (d \in DOMAIN src /\ src[d].isDir) =>
                    /\ Cardinality(hits) = 1
                    /\ \A i \in hits :
                          /\ last.out[i].OrganizationName = o
                          /\ last.out[i].ModelName = n
                          /\ last.out[i].TargetPath = TPath(o, n)

C14_Witness ==
    /\ last.op = "load"
    /\ dirAX \in DOMAIN src /\ src[dirAX].isDir
    /\ dirBY \in DOMAIN src
    /\ Len(last.out) = 2
    /\ last.out[2].OrganizationName = orgB /\ last.out[2].ModelName = nameY

\* The record LoadModels returns now for the directory a record names.
RecordNow(r) ==
    LET out == LoadModels(src, tgt)
    IN  {out[i] : i \in {j \in 1..Len(out) : out[j].CacheDirName = r.CacheDirName}}

\* A target directory left by a successful Link whose source artifact has
\* since been deleted: the marker, and links into no directory of the cache.
LinkedFromDeleted(p) ==
    /\ HasMarker(tgt, p)
    /\ DirAt(tgt, p).files # {}
    /\ \A f \in DirAt(tgt, p).files : f.kind = "symlink" /\ f.to.entry \notin DOMAIN src

\* C15: after a Link that returned no error, LoadModels reports the record
\* linked; and once the source artifact a target directory was linked from
\* is deleted, FindStaleLinks returns exactly one record for that directory.
C15_LinkedThenStale ==
    /\ (last.op = "link" /\ last.err = "nil") =>
            /\ RecordNow(last.rec) # {}
            /\ \A m \in RecordNow(last.rec) : m.IsLinked
    /\ last.op = "stale" =>
            \A p \in DOMAIN tgt :
                LinkedFromDeleted(p) =>
                    Cardinality({i \in 1..Len(last.out) : last.out[i].TargetPath = p}) = 1

\* The error of the discovery the front end runs on the present file system.
DiscoveryErr ==
    IF LoadModelsResult(env, src, tgt).err # "nil"
    THEN LoadModelsResult(env, src, tgt).err
    ELSE FindStaleLinksResult(env, src, tgt).err

\* C16: when discovery fails (a root is missing, the walk meets an error),
\* the view the front end shows once it is idle carries that error instead of
\* an empty or partial list.
C16_DiscoveryErrorsSurfaced ==
    (~ui.loading /\ procs = <<>> /\ DiscoveryErr # "nil") =>
        ui.status.k = DiscoveryErr

\* C17: every failure of an engine call inside linkAll, unlinkAll or
\* purgeAll is written to the log by the command, whether or not the run is
\* verbose.
C17_AggregateFailuresLogged ==
    \A i \in 1..Len(procs) :
        procs[i].kind \in Aggregates =>
            \A j \in 1..Len(procs[i].att) :
                procs[i].att[j].err # "nil" =>
                    \E k \in 1..Len(procs[i].log) : procs[i].log[k] = procs[i].att[j]

\* C18: when the walk of FindStaleLinks meets an error the call returns the
\* error and no stale record.
C18_NoPartialStaleOnWalkError ==
    (last.op = "stale" /\ last.err # "nil") => last.out = <<>>

\* C19: no file of the source cache is ever written to.
C19_SourceTreeUntouched == written = {}

SnapshotEntries(r) ==
    SnapFiles(ReadSnapshots(src, SrcPath(r.SourcePath.entry,
                                         Append(r.SourcePath.sub, snapshotsDir))))

\* C21: after a successful Link the target directory holds the marker and
\* exactly one symlink per entry of the source's snapshots, whatever was at
\* the target path before; a successful Link right after a successful Link of
\* the same record leaves the target tree as it was.
C21_LinkOverwritesAndIsIdempotent ==
    (last.op = "link" /\ last.err = "nil") =>
        LET d == DirAt(tgt, last.rec.TargetPath)
            es == SnapshotEntries(last.rec)
        IN  /\ d.exists /\ d.marker
            /\ Cardinality(d.files) = Len(es)
            /\ \A i \in 1..Len(es) :
                    \E f \in d.files : f.name = es[i].file.name /\ f.kind = "symlink"
            /\ \A f \in d.files :
                    f.kind = "symlink" /\ \E i \in 1..Len(es) : es[i].file.name = f.name
            /\ last.again = "relinked" => tgt = last.before /\ orgs = last.orgsBefore

\* A successful Link over a directory that held an entry the source does not
\* have.
C21_Witness ==
    /\ last.op = "link" /\ last.err = "nil"
    /\ \E f \in DirAt(last.before, last.rec.TargetPath).files :
            f \notin DirAt(tgt, last.rec.TargetPath).files

\* A successful Link right after a successful Link of the same record.
C21_WitnessRelinked ==
    /\ last.op = "link" /\ last.err = "nil" /\ last.again = "relinked"
    /\ DirAt(tgt, last.rec.TargetPath).files # {}

\* C22: LoadModels returns an error and no record when the cache root or the
\* target root is no existing directory.
C22_LoadFailsWithoutRoots ==
    (last.op = "load" /\ (~env.hfCache \/ ~env.targetDir)) =>
        last.err # "nil" /\ last.out = <<>>

\* LoadModels called on a cache that holds a model while the target root is
\* missing.
C22_Witness ==
    /\ last.op = "load" /\ ~env.targetDir /\ env.hfCache
    /\ \E n \in DOMAIN src : src[n].isDir /\ Contains(n)
    /\ last.err = "DirectoryNotFound"

\* C23: LoadModels returns no record for an entry of the cache root that is
\* no directory or whose name holds no "--", and for every other entry one
\* record whose organization is the second-to-last and whose name is the last
\* segment of the entry's name split on "--".
C23_LastTwoSegments ==
    last.op = "load" =>
        /\ \A i \in 1..Len(last.out) : last.out[i].CacheDirName \in DOMAIN src
        /\ \A n \in DOMAIN src :
              LET hits == {i \in 1..Len(last.out) : last.out[i].CacheDirName = n}
                  parts == Split(n)
              IN  IF src[n].isDir /\ Contains(n)
                  THEN /\ Cardinality(hits) = 1
                       /\ \A i \in hits :
                             /\ last.out[i].OrganizationName = parts[Len(parts) - 1]
                             /\ last.out[i].ModelName = parts[Len(parts)]
                  ELSE hits = {}

\* LoadModels on a cache holding a--x and models--d--a--x as directories:
\* both yield organization a and name x.
C23_Witness ==
    /\ last.op = "load" /\ Len(last.out) = 2
    /\ {last.out[i].CacheDirName : i \in 1..2} = {dirTwo, dirFour}
    /\ \A i \in 1..2 : last.out[i].OrganizationName = orgA /\ last.out[i].ModelName = nameX

\* LoadModels on a cache holding a regular file named models--a--x and a
\* directory without "--" returns nothing.
C23_WitnessSkipped ==
    /\ last.op = "load" /\ last.out = <<>>
    /\ DOMAIN src = {dirAX, dirPlain} /\ ~src[dirAX].isDir /\ src[dirPlain].isDir

\* C24: a step that starts a single-item command starts it for the selected
\* record, and starts Link only when that record is neither stale nor linked,
\* Unlink only when it is linked and not stale, Purge only when it is stale.
C24_SingleActionGuards ==
    [][Len(procs') = Len(procs) + 1 =>
          LET c == procs'[Len(procs')] IN
          c.kind \in {"link", "unlink", "purge"} =>
              /\ ui.cursor \in 1..Len(ui.items)
              /\ c.items = <<ui.items[ui.cursor]>>
              /\ c.kind = "link" =>
                    ~ui.items[ui.cursor].IsStale /\ ~ui.items[ui.cursor].IsLinked
              /\ c.kind = "unlink" =>
                    ~ui.items[ui.cursor].IsStale /\ ui.items[ui.cursor].IsLinked
              /\ c.kind = "purge" => ui.items[ui.cursor].IsStale]_vars

\* An Unlink was just started for the selected record, which is linked and
\* not stale.
C24_Witness ==
    /\ \E i \in 1..Len(procs) :
          /\ procs[i].kind = "unlink" /\ procs[i].att = <<>>
          /\ procs[i].items[1].IsLinked /\ ~procs[i].items[1].IsStale
    /\ ui.status.k = "Unlinking model"

\* The components a resolver appends below the cache directory.
AppOf(op) ==
    IF op = "GetHfCacheDir" THEN <<"huggingface", "hub">> ELSE <<"lm-studio", "models">>

\* C25: on an OS other than macOS and Windows a resolver returns the path
\* under XDG_CACHE_HOME when that is set and not empty, and <home>/.cache/...
\* otherwise; on macOS it returns <home>/.cache/... whatever the variable; on
\* Windows the path under LOCALAPPDATA when that is set and not empty, and
\* <home>/AppData/Local/... otherwise.
C25_RootResolution ==
    last.op \in {"GetHfCacheDir", "GetLmStudioModelsDir"} =>
        LET app == AppOf(last.op)
            xdg == env.XDG_CACHE_HOME
            lad == env.LOCALAPPDATA
            underHome(mid) == env.home.ok =>
                                 last.err = "nil" /\ last.out = <<env.home.dir>> \o mid \o app
        IN  /\ env.GOOS \notin {"darwin", "windows"} =>
                  IF xdg.set /\ xdg.value # ""
                  THEN last.err = "nil" /\ last.out = <<xdg.value>> \o app
                  ELSE underHome(<<".cache">>)
            /\ env.GOOS = "darwin" => underHome(<<".cache">>)
            /\ env.GOOS = "windows" =>
                  IF lad.set /\ lad.value # ""
                  THEN last.err = "nil" /\ last.out = <<lad.value>> \o app
                  ELSE underHome(<<"AppData", "Local">>)

\* GetHfCacheDir on macOS with XDG_CACHE_HOME set: the path is under the home
\* directory.
C25_Witness ==
    /\ last.op = "GetHfCacheDir" /\ env.GOOS = "darwin"
    /\ env.XDG_CACHE_HOME = SetTo("/xdg")
    /\ last.out = <<"/home/u", ".cache", "huggingface", "hub">>

\* C26: the step that handles the message of a failed single-item command
\* sets the status to the error text, which names the record and carries the
\* error the engine returned, and clears the loading indicator.
C26_SingleErrorSurfaces ==
    [][\A i \in 1..Len(procs) :
          (/\ procs[i].phase = "send" /\ procs[i].msg.type = "error"
           /\ procs' = RemoveAt(procs, i)) =>
              LET p == procs[i]
                  a == p.att[Len(p.att)]
              IN  /\ a.err # "nil"
                  /\ ui'.status = Status(ErrorText(p.kind), <<a.rec.ModelName, a.err>>)
                  /\ ~ui'.loading]_vars

\* The message of a failed Link of the selected record has been handled.
C26_Witness ==
    /\ ui.status.k = "Error linking model"
    /\ ui.status.arg[2] # "nil"
    /\ ~ui.loading

\* C27: after a Link that failed while creating the symlinks, os.Stat of the
\* marker path fails on the target directory, LoadModels reports no record of
\* that directory as linked, and Unlink of the record removes nothing.
C27_NoMarkerAfterPartialLink ==
    (last.op = "link"
     /\ last.err \in {"SymlinkResolutionFailed", "SymlinkCreationFailed"}) =>
        /\ ~HasMarker(tgt, last.rec.TargetPath)
        /\ \A i \in 1..Len(LoadModels(src, tgt)) :
              LoadModels(src, tgt)[i].TargetPath = last.rec.TargetPath =>
                  ~LoadModels(src, tgt)[i].IsLinked
        /\ UnlinkModel(last.rec, src, tgt, orgs).tgt = tgt

\* C28: a Link that fails because the source path or its snapshots directory
\* is no directory leaves the target tree as it was.
C28_SourceErrorsLeaveTarget ==
    (last.op = "link" /\ last.err \in {"SourceMissing", "SnapshotsMissing"}) =>
        tgt = last.before /\ orgs = last.orgsBefore

\* Such a Link on a record whose target directory exists and holds the marker.
C28_Witness ==
    /\ last.op = "link" /\ last.err = "SnapshotsMissing"
    /\ HasMarker(tgt, last.rec.TargetPath)
    /\ DirAt(tgt, last.rec.TargetPath).files # {}

\* Such a Link on a record whose target directory is a user's.
C28_WitnessUserDir ==
    /\ last.op = "link" /\ last.err \in {"SourceMissing", "SnapshotsMissing"}
    /\ DirAt(tgt, last.rec.TargetPath) = UserDir

\* Two snapshot directories of the record's source hold an entry of the same
\* name.
SameNameInTwoSnapshots(r) ==
    LET es == SnapshotEntries(r) IN
    \E i, j \in 1..Len(es) :
        es[i].snap # es[j].snap /\ es[i].file.name = es[j].file.name

\* C29: a Link of a source whose snapshot directories hold an entry of the
\* same name, all entries resolving and the target path free or removable,
\* succeeds: the marker is written and the target holds one link per name.
C29_DuplicateNamesLinkSucceeds ==
    (/\ last.op = "link"
     /\ SameNameInTwoSnapshots(last.rec)
     /\ \A i \in 1..Len(SnapshotEntries(last.rec)) :
            EvalSymlinks(last.rec.SourcePath.entry, SnapshotEntries(last.rec)[i].snap,
                         SnapshotEntries(last.rec)[i].file).ok
     /\ ~RemoveAllFails(last.before, last.rec.TargetPath)) =>
        /\ last.err = "nil"
        /\ HasMarker(tgt, last.rec.TargetPath)
        /\ \A i \in 1..Len(SnapshotEntries(last.rec)) :
              \E f \in DirAt(tgt, last.rec.TargetPath).files :
                  f.name = SnapshotEntries(last.rec)[i].file.name


\* C30: the list LinkAll and UnlinkAll walk is the artifact list of the latest
\* discovery: after New, and after every opResultMsg is handled, the UI's
\* models list is the list of discovered artifacts (each once, no stale record),
\* whatever the lengths of the artifact and stale lists.
C30_ModelsListIsDiscovery ==
    /\ ui.models = LoadModelsResult(env, src, tgt).models
    /\ [][\A i \in 1..Len(procs) :
            (/\ procs[i].phase = "send"
             /\ procs[i].msg.type = "opResult"
             /\ ui' = handleMsg(ui, procs[i].msg))
            => /\ ui'.models = procs[i].msg.models
               /\ \A k \in 1..Len(ui'.models) : ~ui'.models[k].IsStale]_vars

\* A stale record is in the list LinkAll and UnlinkAll walk, and an artifact of
\* the cache is missing from it.
C30_StaleInModels ==
    /\ \E k \in 1..Len(ui.models) : ui.models[k].IsStale
    /\ \E n \in DOMAIN src : \A k \in 1..Len(ui.models) : ui.models[k].CacheDirName # n

\* A step of LinkAll that reaches a record, not linked in the command's
\* snapshot, after the command has linked another source directory to the
\* same target path.
SecondOfSameTarget(i) ==
    /\ i <= Len(procs')
    /\ Len(procs') = Len(procs)
    /\ procs[i].kind = "linkAll"
    /\ procs[i].phase = "run"
    /\ procs[i].idx <= Len(procs[i].items)
    /\ procs'[i].idx = procs[i].idx + 1
    /\ ~procs[i].items[procs[i].idx].IsLinked
    /\ \E j \in 1..Len(procs[i].att) :
          /\ procs[i].att[j].err = "nil"
          /\ procs[i].att[j].rec.TargetPath = procs[i].items[procs[i].idx].TargetPath
          /\ procs[i].att[j].rec.CacheDirName # procs[i].items[procs[i].idx].CacheDirName

\* C31: two source directories with the same last two segments are two
\* records with one target path; LinkAll, given both as not linked, calls
\* Link for the second as well, that Link returns what it returns on a free
\* target path, and when it succeeds the target directory holds the links of
\* the second record only while discovery reports both records as linked.
C31_LastLinkWins ==
    /\ [](\A m1, m2 \in {LoadModels(src, tgt)[k] : k \in 1..Len(LoadModels(src, tgt))} :
            (m1.OrganizationName = m2.OrganizationName /\ m1.ModelName = m2.ModelName)
                => m1.TargetPath = m2.TargetPath)
    /\ [][\A i \in 1..Len(procs) : SecondOfSameTarget(i) =>
            LET m == procs[i].items[procs[i].idx]
                call == procs'[i].att[Len(procs'[i].att)]
                d == DirAt(tgt', m.TargetPath)
            IN  /\ Len(procs'[i].att) = Len(procs[i].att) + 1
                /\ call.rec = m
                /\ call.err = LinkModel(m, src, [tgt EXCEPT ![m.TargetPath] = Absent], orgs).err
                /\ call.err = "nil" =>
                      /\ d.marker
                      /\ Cardinality(d.files) = Len(SnapshotEntries(m))
                      /\ \A f \in d.files : f.kind = "symlink" /\ f.to.entry = m.CacheDirName
                      /\ \A k \in 1..Len(LoadModels(src, tgt')) :
                            LoadModels(src, tgt')[k].TargetPath = m.TargetPath
                                => LoadModels(src, tgt')[k].IsLinked]_vars

\* LinkAll has linked two source directories to one target path, and the
\* links there are those of the second.
C31_Witness ==
    \E i \in 1..Len(procs) :
        /\ procs[i].kind = "linkAll"
        /\ Len(procs[i].att) = 2
        /\ procs[i].att[1].err = "nil" /\ procs[i].att[2].err = "nil"
        /\ procs[i].att[1].rec.TargetPath = procs[i].att[2].rec.TargetPath
        /\ procs[i].att[1].rec.CacheDirName # procs[i].att[2].rec.CacheDirName
        /\ DirAt(tgt, procs[i].att[2].rec.TargetPath).files # {}
        /\ \A f \in DirAt(tgt, procs[i].att[2].rec.TargetPath).files :
              f.to.entry = procs[i].att[2].rec.CacheDirName

\* C32: every record FindStaleLinks returns has IsStale and IsLinked true and
\* a non-empty StaleReason; every record LoadModels returns has IsStale false
\* and an empty StaleReason.
C32_RecordFlags ==
    /\ last.op = "stale" =>
          \A k \in 1..Len(last.out) :
              last.out[k].IsStale /\ last.out[k].IsLinked /\ last.out[k].StaleReason # ""
    /\ last.op = "load" =>
          \A k \in 1..Len(last.out) :
              ~last.out[k].IsStale /\ last.out[k].StaleReason = ""

\* FindStaleLinks has returned a record.
C32_Witness == last.op = "stale" /\ Len(last.out) > 0

\* LoadModels has returned a linked and an unlinked record.
C32_WitnessLoad ==
    /\ last.op = "load"
    /\ \E j, k \in 1..Len(last.out) : last.out[j].IsLinked /\ ~last.out[k].IsLinked

\* C33: a call of LinkModel or UnlinkModel leaves every other directory of
\* the target tree as it was, the other children of the record's organization
\* directory included; UnlinkModel leaves the organization directories as they
\* were, and LinkModel adds at most the record's own organization directory.
C33_FrameOfLinkAndUnlink ==
    last.op \in {"link", "unlink"} =>
        /\ DOMAIN tgt = DOMAIN last.before
        /\ \A p \in DOMAIN tgt : p # last.rec.TargetPath => tgt[p] = last.before[p]
        /\ last.orgsBefore \subseteq orgs
        /\ orgs \ last.orgsBefore \subseteq {last.rec.TargetPath[1]}
        /\ last.op = "unlink" => orgs = last.orgsBefore

\* An Unlink has removed a/x while its organization holds another directory.
C33_Witness ==
    /\ last.op = "unlink" /\ last.err = "nil"
    /\ last.rec.TargetPath = TPath(orgA, nameX)
    /\ DirAt(last.before, last.rec.TargetPath).exists
    /\ ~DirAt(tgt, last.rec.TargetPath).exists
    /\ DirAt(tgt, TPath(orgA, nameY)).exists

\* A Link has replaced a/x and created nothing else, next to another
\* directory of its organization; a Link has created a missing organization.
C33_WitnessLink ==
    /\ last.op = "link" /\ last.err = "nil"
    /\ \/ /\ last.rec.TargetPath = TPath(orgA, nameX)
          /\ DirAt(last.before, last.rec.TargetPath).exists
          /\ DirAt(tgt, TPath(orgA, nameY)).exists
       \/ last.rec.TargetPath[1] \notin last.orgsBefore

\* C34: LoadModels and FindStaleLinks leave the cache and the target tree as
\* they are; a call right after a call of the same function returns the same
\* list and the same error; a record whose target directory has no marker, or
\* cannot be read, is returned with IsLinked false and LoadModels returns no
\* error for it.
C34_DiscoveryReadOnly ==
    /\ [][last'.op \in {"load", "stale"} =>
            /\ src' = src /\ tgt' = tgt /\ orgs' = orgs
            /\ written' = written /\ env' = env]_vars
    /\ [][(last.op \in {"load", "stale"} /\ last'.op = last.op) =>
            (last'.out = last.out /\ last'.err = last.err)]_vars
    /\ [](last.op = "load" =>
            /\ last.err = "nil"
            /\ Len(last.out) = Cardinality({n \in DOMAIN src : src[n].isDir /\ Contains(n)})
            /\ \A k \in 1..Len(last.out) :
                  (~HasMarker(tgt, last.out[k].TargetPath)
                        \/ DirAt(tgt, last.out[k].TargetPath).noread)
                     => ~last.out[k].IsLinked)

\* LoadModels has returned a record whose target directory holds the marker
\* and cannot be read, and a record whose target directory has no marker.
C34_Witness ==
    /\ last.op = "load" /\ last.err = "nil"
    /\ \E k \in 1..Len(last.out) :
          /\ HasMarker(tgt, last.out[k].TargetPath)
          /\ DirAt(tgt, last.out[k].TargetPath).noread
    /\ \E k \in 1..Len(last.out) :
          /\ DirAt(tgt, last.out[k].TargetPath).exists
          /\ ~DirAt(tgt, last.out[k].TargetPath).marker

\* The step in which command i, every engine call made, rediscovers.
Rediscovers(i) ==
    /\ i <= Len(procs')
    /\ Len(procs') = Len(procs)
    /\ procs[i].phase = "run"
    /\ procs[i].idx > Len(procs[i].items)
    /\ procs'[i].phase = "send"

\* The command has called the engine, and every call returned nil.
AllCallsSucceeded(p) ==
    /\ Len(p.att) >= 1
    /\ \A j \in 1..Len(p.att) : p.att[j].err = "nil"

\* C35: the rediscovery that follows a PurgeAllStale whose Unlink calls all
\* succeeded returns none of the purged records as stale, and the rediscovery
\* that follows a LinkAll whose Link calls all succeeded returns every
\* artifact with IsLinked true.
C35_RediscoveryAfterAggregate ==
    [][\A i \in 1..Len(procs) :
          (Rediscovers(i) /\ AllCallsSucceeded(procs[i])) =>
              /\ procs[i].kind = "purgeAll" =>
                    \A j \in 1..Len(procs[i].items) :
                        \A k \in 1..Len(procs'[i].msg.stale) :
                            procs'[i].msg.stale[k].TargetPath # procs[i].items[j].TargetPath
              /\ procs[i].kind = "linkAll" =>
                    \A k \in 1..Len(procs'[i].msg.models) :
                        procs'[i].msg.models[k].IsLinked]_vars

\* C36: in the viewport build selectedIndex addresses an item of the filtered
\* list whenever that list is not empty, so no key indexes past its end.
C36_SelectionInRange ==
    /\ (build = "viewport" /\ Len(ui.items) > 0) => ui.cursor \in 1..Len(ui.items)
    /\ ~ui.panicked

\* The link key has indexed past the end of the filtered list.
C36_IndexPanic == ui.panicked

\* C37: in the list build the loading indicator is true exactly while a
\* dispatched command has not had its result handled.
C37_LoadingWhileInFlight ==
    build = "list" => (ui.loading <=> Len(procs) > 0)

\* A result was handled, the indicator is off, and another command is still
\* running.
C37_IdleWhileRunning ==
    /\ build = "list" /\ ~ui.loading
    /\ dispatched = 2
    /\ Len(procs) = 1 /\ procs[1].phase = "run"

\* The override variable a resolver reads on this OS holds a value.
OverrideApplies(e) ==
    \/ e.GOOS = "windows" /\ e.LOCALAPPDATA.set /\ e.LOCALAPPDATA.value # ""
    \/ e.GOOS \notin {"windows", "darwin"} /\ e.XDG_CACHE_HOME.set /\ e.XDG_CACHE_HOME.value # ""

\* C38: a root resolver returns an error and no path when the home directory
\* is not defined and neither override variable is set; it returns no error
\* when the override variable of its OS is set and not empty; and it fails in
\* no case but an undefined home directory without an applicable override.
C38_RootResolverErrors ==
    last.op \in {"GetHfCacheDir", "GetLmStudioModelsDir"} =>
        /\ (~env.home.ok /\ ~env.XDG_CACHE_HOME.set /\ ~env.LOCALAPPDATA.set)
              => (last.err = "HomeDirectoryUnavailable" /\ last.out = <<>>)
        /\ OverrideApplies(env) => last.err = "nil"
        /\ last.err # "nil" <=> (~env.home.ok /\ ~OverrideApplies(env))

\* A resolver has failed for want of a home directory, no variable set.
C38_Witness ==
    /\ last.op = "GetLmStudioModelsDir" /\ last.err = "HomeDirectoryUnavailable"
    /\ ~env.home.ok /\ ~env.XDG_CACHE_HOME.set /\ ~env.LOCALAPPDATA.set

\* A resolver has returned a path without a home directory, from the
\* override variable of its OS.
C38_WitnessOverride ==
    /\ last.op = "GetHfCacheDir" /\ last.err = "nil"
    /\ ~env.home.ok /\ OverrideApplies(env)
    /\ last.out # <<>>

====
